---- MODULE Spec2Model ----
(***************************************************************************)
(* Quadtris (src/scripts/QuadtrisGame.mjs): the QuadtrisGame object as a   *)
(* record `game`, its methods as operators from a game record to a game    *)
(* record, and the driver's calls (startNewGame, pauseGame, runTick, the   *)
(* isStateChanged getter) as actions.                                      *)
(***************************************************************************)
EXTENDS Integers, Sequences, FiniteSets, TLC

VARIABLES
    game,   \* the QuadtrisGame object: gameState and the private fields
    last,   \* the last call made on the object, with what it observed
    hist,   \* record of the current game: dequeues, locks, animation ticks
    inputMod,  \* the QuadtrisInput object: actionStates and counters
    keys    \* the keyboard: the keys held down, and the presses and the
            \* ticks with a counter of 1 so far, by action

vars == <<game, last, hist, inputMod, keys>>

----------------------------------------------------------------------------
(* Program constants *)

numRows == 21
numCols == 10
\* graceTimerDuration (0.5 s) and the boost (0.5 s) in units of gameTickTime
\* (1/30 s): 15 tick durations each.
graceTimerDuration == 15
graceBoost == 15
maxGraceBoosts == 30
spawnX == 3
spawnY == 19
bagSize == 7
animationPeriod == 4
maxTests == 5
defaultTicksPerGravity == 15

(* Bounds of the model *)

\* Number of picks of one #refillPieceQueue call, counted from the first,
\* whose Math.random() value ranges over every index under the queue
\* specification; the later picks take the last index.
MaxFreePicks == 1
\* Dequeues of one game under the queue specification.
MaxDraws == 15
\* Ticks on which the player steers or holds in one game under the
\* steering specification.
MaxSteers == 5
\* Pieces locked in one game under the lock timer specification.
MaxLocks == 1
\* Largest |dx|, |dy| of the moves tried on every reachable state.
MaxStep == 1
\* Pieces dropped where they spawn before the player steers, under the
\* steering specification.
OpeningLocks == 8
\* Largest sideways shift of the piece before the drops tried on every
\* reachable state of the clearing specification.
MaxShift == 4
\* Largest number of cleared lines for which the speed level is computed.
MaxLines == 120
\* presses of the keys of one action, and ticks a key is held
MaxPresses == 2
MaxHeld == 3
\* rows from the floor within which the player steers under the stalling
\* specification
StallRows == 1
\* Lowest row to which the piece is taken down under the turning
\* specification.
TurnFloor == 12
\* Number of painted grids, besides the empty one, on which the grid
\* functions are called under the grid specification.
GridPaints == 3
\* Columns and rows outside the grid, on each side, at which isBlockHere is
\* asked.
GridMargin == 2
\* Pieces left to fall under gravity in one game under the driver
\* specification.
IdlePieces == 1

Shapes == {"O", "I", "T", "J", "L", "S", "Z"}
NoShape == "none"   \* null

----------------------------------------------------------------------------
(* QuadPiece *)

\* QuadPiece.pieces
pieces(shape) ==
    CASE shape = "O" -> << <<1, 0>>, <<1, 1>>, <<2, 1>>, <<2, 0>> >>
      [] shape = "I" -> << <<1, 0>>, <<0, 0>>, <<2, 0>>, <<3, 0>> >>
      [] shape = "L" -> << <<1, 0>>, <<0, 0>>, <<2, 0>>, <<2, 1>> >>
      [] shape = "J" -> << <<1, 0>>, <<0, 0>>, <<0, 1>>, <<2, 0>> >>
      [] shape = "T" -> << <<1, 0>>, <<0, 0>>, <<2, 0>>, <<1, 1>> >>
      [] shape = "S" -> << <<1, 0>>, <<0, 0>>, <<1, 1>>, <<2, 1>> >>
      [] shape = "Z" -> << <<1, 0>>, <<2, 0>>, <<1, 1>>, <<0, 1>> >>

\* QuadPiece.getBaseShape
getBaseShape(shape) ==
    IF shape \in Shapes THEN pieces(shape)
    ELSE << <<0, 0>>, <<0, 0>>, <<0, 0>>, <<0, 0>> >>

\* Faulty variant of offsetsO: the O piece is not shifted back onto its cells.
offsetsONoShift ==
    << << <<0, 0>>, <<0, 0>>, <<0, 0>>, <<0, 0>> >> >>

\* QuadPiece.offsets: table[test + 1][rotationIndex + 1]
offsetsO ==
    << << <<0, 0>>, <<0, -1>>, <<-1, -1>>, <<-1, 0>> >> >>

offsetsI ==
    << << <<0, 0>>,  <<-1, 0>>, <<-1, 1>>, <<0, 1>> >>,
       << <<-1, 0>>, <<0, 0>>,  <<1, 1>>,  <<0, 1>> >>,
       << <<2, 0>>,  <<0, 0>>,  <<-2, 1>>, <<0, 1>> >>,
       << <<-1, 0>>, <<0, 1>>,  <<1, 0>>,  <<0, -1>> >>,
       << <<2, 0>>,  <<0, -2>>, <<-2, 0>>, <<0, 2>> >> >>

offsetsOTHER ==
    << << <<0, 0>>, <<0, 0>>,  <<0, 0>>, <<0, 0>> >>,
       << <<0, 0>>, <<1, 0>>,  <<0, 0>>, <<-1, 0>> >>,
       << <<0, 0>>, <<1, -1>>, <<0, 0>>, <<-1, -1>> >>,
       << <<0, 0>>, <<0, 2>>,  <<0, 0>>, <<0, 2>> >>,
       << <<0, 0>>, <<1, 2>>,  <<0, 0>>, <<-1, 2>> >> >>

\* the switch of #resolveRotation
offsetTableOf(shape) ==
    CASE shape = "O" -> offsetsO
      [] shape = "I" -> offsetsI
      [] OTHER -> offsetsOTHER

\* the 4 blocks translated by one offset
shiftBlocks(blocks, offset) ==
    << <<blocks[1][1] + offset[1], blocks[1][2] + offset[2]>>,
       <<blocks[2][1] + offset[1], blocks[2][2] + offset[2]>>,
       <<blocks[3][1] + offset[1], blocks[3][2] + offset[2]>>,
       <<blocks[4][1] + offset[1], blocks[4][2] + offset[2]>> >>

\* new QuadPiece(shape)
QuadPiece(shape) ==
    [ shape |-> shape,
      blocks |-> shiftBlocks(getBaseShape(shape), <<spawnX, spawnY>>),
      rotationIndex |-> 0,
      active |-> TRUE,
      wasHeld |-> FALSE ]

\* pieceMap, set in the constructor
pieceMap(shape) ==
    CASE shape = "Z" -> 1
      [] shape = "S" -> 2
      [] shape = "O" -> 3
      [] shape = "J" -> 4
      [] shape = "T" -> 5
      [] shape = "I" -> 6
      [] shape = "L" -> 7

\* QuadtrisGame.levels
levels(level) ==
    CASE level = 1 -> 15
      [] level = 2 -> 14
      [] level = 3 -> 13
      [] level = 4 -> 12
      [] level = 5 -> 11
      [] level = 6 -> 10
      [] level = 7 -> 9
      [] level = 8 -> 7
      [] level = 9 -> 5
      [] level = 10 -> 3
      [] level = 11 -> 1
      [] OTHER -> -1      \* undefined

levelsMax == 11

----------------------------------------------------------------------------
(* Grid store.  A row of gridData is a Uint32 word; it is held here as its *)
(* int32 image (the same 32 bits read in two's complement), which is what  *)
(* JavaScript's bitwise operators compute with.  gridData is a sequence:   *)
(* gridData[y] of the code is gridData[y + 1] here.                        *)

\* 32 - (3 + 3 * x)
bitshiftOf(x) == 32 - (3 + 3 * x)

\* v << s as an int32, for a 3-bit v
shl3(v, s) ==
    IF s = 29 THEN (IF v >= 4 THEN v - 8 ELSE v) * 2^29 ELSE v * 2^s

\* (row & (0b111 << s)) >>> s
field3(row, s) == (row \div 2^s) % 8

\* a | b on 3-bit values
or3(a, b) ==
      (IF a % 2 = 1 \/ b % 2 = 1 THEN 1 ELSE 0)
    + (IF (a \div 2) % 2 = 1 \/ (b \div 2) % 2 = 1 THEN 2 ELSE 0)
    + (IF (a \div 4) % 2 = 1 \/ (b \div 4) % 2 = 1 THEN 4 ELSE 0)

\* row & (0b111 << s), as an int32
maskField(row, s) == shl3(field3(row, s), s)

\* row & ~(0b111 << s)
clearField(row, s) == row - shl3(field3(row, s), s)

\* row | (color << s)
orField(row, color, s) ==
    LET old == field3(row, s)
    IN  clearField(row, s) + shl3(or3(old, color), s)

RECURSIVE zeroRows(_)
zeroRows(n) == IF n = 0 THEN << >> ELSE Append(zeroRows(n - 1), 0)

\* new Uint32Array(numRows)
emptyGrid == zeroRows(numRows)

\* isBlockHere(x, y) with the masked word compared as a signed number
isBlockHereSigned(g, x, y) ==
    IF x < 0 \/ y < 0 \/ x >= numCols \/ y >= numRows THEN TRUE
    ELSE maskField(g.gridData[y + 1], bitshiftOf(x)) > 0

\* isBlockHere(x, y)
isBlockHere(g, x, y) ==
    IF x < 0 \/ y < 0 \/ x >= numCols \/ y >= numRows THEN TRUE
    ELSE maskField(g.gridData[y + 1], bitshiftOf(x)) # 0

\* getBlockData(x, y)
getBlockData(g, x, y) == field3(g.gridData[y + 1], bitshiftOf(x))

\* #placeBlockHere(x, y, color) without the clearing of the old bits
placeBlockHereNoClear(g, x, y, color) ==
    [g EXCEPT !.gridData[y + 1] =
        orField(g.gridData[y + 1], color, bitshiftOf(x))]

\* #placeBlockHere(x, y, color)
placeBlockHere(g, x, y, color) ==
    LET s == bitshiftOf(x)
        cleared == clearField(g.gridData[y + 1], s)
    IN  [g EXCEPT !.gridData[y + 1] = orField(cleared, color, s)]

\* clearRow(row) without the emptying of the top row
clearRowKeepTop(g, row) ==
    [g EXCEPT !.gridData =
        SubSeq(g.gridData, 1, row)
        \o SubSeq(g.gridData, row + 2, numRows)
        \o <<g.gridData[numRows]>>]

\* clearRow(row)
clearRow(g, row) ==
    [g EXCEPT !.gridData =
        SubSeq(g.gridData, 1, row)
        \o SubSeq(g.gridData, row + 2, numRows)
        \o <<0>>]

\* isPlayerPieceValid()
isPlayerPieceValid(g) ==
    \A i \in 1..4 :
        ~isBlockHere(g, g.playerPiece.blocks[i][1], g.playerPiece.blocks[i][2])

----------------------------------------------------------------------------
(* Queue / bag generator *)

bagOrder == <<"O", "I", "T", "J", "L", "S", "Z">>

\* Faulty variant of splice1: nothing is removed, so a pick can come again.
spliceNothing(seq, choice) == seq

\* pieces.splice(choice, 1), choice counted from 0
splice1(seq, choice) ==
    SubSeq(seq, 1, choice) \o SubSeq(seq, choice + 2, Len(seq))

\* Faulty variant of refillLoop: the loop ends one pick early.
RECURSIVE refillLoopShort(_, _, _, _)
refillLoopShort(queue, remaining, choices, i) ==
    IF i >= bagSize THEN queue
    ELSE refillLoopShort(Append(queue, remaining[choices[i] + 1]),
                         splice1(remaining, choices[i]), choices, i + 1)

\* The loop of #refillPieceQueue from its pick number i (1..7) on:
\* choices[i] is Math.floor(Math.random() * pieces.length) of that pick.
RECURSIVE refillLoop(_, _, _, _)
refillLoop(queue, remaining, choices, i) ==
    IF i > bagSize THEN queue
    ELSE refillLoop(Append(queue, remaining[choices[i] + 1]),
                    splice1(remaining, choices[i]), choices, i + 1)

\* #refillPieceQueue()
refillPieceQueue(g, choices) ==
    [g EXCEPT !.pieceQueue = refillLoop(g.pieceQueue, bagOrder, choices, 1)]

\* The values the 7 picks of one refill can take: pick i chooses among
\* 8 - i remaining pieces, Math.floor(Math.random() * pieces.length).
AllChoices ==
    {<<a, b, c, d, e, f, 0>> :
        a \in 0..6, b \in 0..5, c \in 0..4, d \in 0..3, e \in 0..2, f \in 0..1}

\* The picks in which the first `free` picks take every index and the later
\* picks take the last index (Math.random() close to 1).
Picks(free) ==
    {c \in AllChoices : \A i \in 1..bagSize : i > free => c[i] = bagSize - i}

\* The picks enumerated under the queue specification,
QueuePicks == Picks(MaxFreePicks)
\* those that make every shape the first of a bag,
FirstShapePicks == Picks(1)
\* and the single sequence of picks Z, S, L, J, T, I, O.
LastPicks == Picks(0)
LastPicksOne == CHOOSE c \in LastPicks : TRUE
\* The two sequences of picks enumerated for the second bag of a game under
\* the steering specification: Z, S, L, J, T, I, O and Z, S, I, O, L, J, T.
TopPicks == LastPicks \cup {<<6, 5, 1, 0, 2, 1, 0>>}

\* Faulty variant of grabNextPiece: the queue is refilled one dequeue late.
grabNextPieceLateRefill(g, choices) ==
    LET nextPiece == g.pieceQueue[1]
        g1 == [g EXCEPT !.pieceQueue = Tail(g.pieceQueue)]
        g2 == IF Len(g1.pieceQueue) < bagSize - 1
              THEN refillPieceQueue(g1, choices) ELSE g1
        g3 == [g2 EXCEPT !.playerPiece = QuadPiece(nextPiece)]
    IN  IF ~isPlayerPieceValid(g3)
        THEN [g3 EXCEPT !.playerPiece.active = FALSE,
                        !.gameOverAnimation = TRUE]
        ELSE g3

\* #grabNextPiece()
grabNextPiece(g, choices) ==
    LET nextPiece == g.pieceQueue[1]
        g1 == [g EXCEPT !.pieceQueue = Tail(g.pieceQueue)]
        g2 == IF Len(g1.pieceQueue) < bagSize
              THEN refillPieceQueue(g1, choices) ELSE g1
        g3 == [g2 EXCEPT !.playerPiece = QuadPiece(nextPiece)]
    IN  IF ~isPlayerPieceValid(g3)
        THEN [g3 EXCEPT !.playerPiece.active = FALSE,
                        !.gameOverAnimation = TRUE]
        ELSE g3

----------------------------------------------------------------------------
(* Grace / lock timer.  #graceTimer counts in tick durations (1/30 s).  In *)
(* the doubles of the code 0.5 - k * (1/30) is positive for k <= 15 (the   *)
(* 15th difference is 9.7e-17) and negative from k = 16 on, so the test    *)
(* `#graceTimer <= 0` of runTick is `units < 0` on a running timer.        *)

\* #startGraceTimer()
startGraceTimer(g) ==
    [g EXCEPT !.graceTimer = graceTimerDuration,
              !.timerRunning = TRUE,
              !.graceBoostCount = 0]

\* #updateGraceTimer(deltaTime), deltaTime in tick durations
updateGraceTimer(g, deltaTime) ==
    [g EXCEPT !.graceTimer = @ - deltaTime]

\* this.#graceTimer <= 0
graceElapsed(g) == g.graceTimer < 0

\* Faulty variant of #boostGraceTimer: the boosts are not counted out.
boostGraceTimerNoCap(g) ==
    IF g.timerRunning
    THEN [g EXCEPT !.graceTimer =
                      IF @ + graceBoost < graceTimerDuration
                      THEN @ + graceBoost ELSE graceTimerDuration,
                   !.graceBoostCount = @ + 1]
    ELSE g

\* #boostGraceTimer()
boostGraceTimer(g) ==
    IF g.timerRunning /\ g.graceBoostCount < maxGraceBoosts
    THEN [g EXCEPT !.graceTimer =
                      IF @ + graceBoost < graceTimerDuration
                      THEN @ + graceBoost ELSE graceTimerDuration,
                   !.graceBoostCount = @ + 1]
    ELSE g

----------------------------------------------------------------------------
(* Movement *)

\* #movePlayerPiece(dx, dy)
movePlayerPiece(g, dx, dy) ==
    [g EXCEPT !.playerPiece.blocks = shiftBlocks(@, <<dx, dy>>)]

\* Faulty variant of tryMovePiece: the piece is moved before the test and
\* not moved back when the test fails.
tryMovePieceNoUndo(g, dx, dy) ==
    LET canMove == \A i \in 1..4 :
            ~isBlockHere(g, g.playerPiece.blocks[i][1] + dx,
                            g.playerPiece.blocks[i][2] + dy)
        g1 == movePlayerPiece(g, dx, dy)
        g2 == IF dx # 0 /\ canMove THEN boostGraceTimer(g1) ELSE g1
        g3 == IF dy # 0 /\ canMove THEN [g2 EXCEPT !.timerRunning = FALSE] ELSE g2
    IN  [g |-> g3, ret |-> canMove]

\* Faulty variant of tryMovePiece: a vertical move leaves the grace timer
\* as it is.
tryMovePieceKeepTimer(g, dx, dy) ==
    LET canMove == \A i \in 1..4 :
            ~isBlockHere(g, g.playerPiece.blocks[i][1] + dx,
                            g.playerPiece.blocks[i][2] + dy)
        g1 == movePlayerPiece(g, dx, dy)
        g2 == IF dx # 0 THEN boostGraceTimer(g1) ELSE g1
    IN  [g |-> IF canMove THEN g2 ELSE g, ret |-> canMove]

\* tryMovePiece(dx, dy): the new object and the returned boolean
tryMovePiece(g, dx, dy) ==
    LET canMove == \A i \in 1..4 :
            ~isBlockHere(g, g.playerPiece.blocks[i][1] + dx,
                            g.playerPiece.blocks[i][2] + dy)
        g1 == movePlayerPiece(g, dx, dy)
        g2 == IF dx # 0 THEN boostGraceTimer(g1) ELSE g1
        g3 == IF dy # 0 THEN [g2 EXCEPT !.timerRunning = FALSE] ELSE g2
    IN  [g |-> IF canMove THEN g3 ELSE g, ret |-> canMove]

\* Faulty variant of hardDropPlayerPiece: the piece stops one row above its
\* resting place when it has gone down at all.
RECURSIVE hardDropShort(_)
hardDropShort(g) ==
    LET r == tryMovePiece(g, 0, -1)
    IN  IF r.ret /\ tryMovePiece(r.g, 0, -1).ret
        THEN hardDropShort(r.g) ELSE g

\* hardDropPlayerPiece(): while (this.tryMovePiece(0, -1)) {}
RECURSIVE hardDropPlayerPiece(_)
hardDropPlayerPiece(g) ==
    LET r == tryMovePiece(g, 0, -1)
    IN  IF r.ret THEN hardDropPlayerPiece(r.g) ELSE r.g

----------------------------------------------------------------------------
(* Rotation (SRS) *)

\* Faulty variant of rotatedBlocks: without `temp`, the new y is computed
\* from the new x.
rotatedBlocksNoTemp(blocks, clockwise) ==
    LET centerOffset == blocks[1]
        xMod == IF clockwise THEN 1 ELSE -1
        yMod == IF clockwise THEN -1 ELSE 1
        turned(b) ==
            <<xMod * (b[2] - centerOffset[2]) + centerOffset[1],
              yMod * xMod * (b[2] - centerOffset[2]) + centerOffset[2]>>
    IN  <<turned(blocks[1]), turned(blocks[2]),
          turned(blocks[3]), turned(blocks[4])>>

\* Faulty variant of rotatedBlocks: both directions turn clockwise.
rotatedBlocksOneWay(blocks, clockwise) ==
    LET centerOffset == blocks[1]
        turned(b) ==
            <<(b[2] - centerOffset[2]) + centerOffset[1],
              (0 - 1) * (b[1] - centerOffset[1]) + centerOffset[2]>>
    IN  <<turned(blocks[1]), turned(blocks[2]),
          turned(blocks[3]), turned(blocks[4])>>

\* the blocks rotated by a quarter turn about blocks[0]
rotatedBlocks(blocks, clockwise) ==
    LET centerOffset == blocks[1]
        xMod == IF clockwise THEN 1 ELSE -1
        yMod == IF clockwise THEN -1 ELSE 1
        turned(b) ==
            <<xMod * (b[2] - centerOffset[2]) + centerOffset[1],
              yMod * (b[1] - centerOffset[1]) + centerOffset[2]>>
    IN  <<turned(blocks[1]), turned(blocks[2]),
          turned(blocks[3]), turned(blocks[4])>>

\* Faulty variant of testOffset: the difference is taken the other way round.
testOffsetReversed(offsetTable, i, from, to) ==
    LET offsetRow == offsetTable[i + 1]
    IN  <<offsetRow[to + 1][1] - offsetRow[from + 1][1],
          offsetRow[to + 1][2] - offsetRow[from + 1][2]>>

\* offset of test i (0..4) from rotation index `from` to `to`
testOffset(offsetTable, i, from, to) ==
    LET offsetRow == offsetTable[i + 1]
    IN  <<offsetRow[from + 1][1] - offsetRow[to + 1][1],
          offsetRow[from + 1][2] - offsetRow[to + 1][2]>>

\* The test loop of #resolveRotation from test i on.  Reading a row the
\* table does not have is a TypeError (offsetRow is undefined).
RECURSIVE rotationTests(_, _, _, _, _)
rotationTests(g, testBlocks, offsetTable, target, i) ==
    IF i >= maxTests
    THEN [canRotate |-> FALSE, threw |-> FALSE, test |-> -1, blocks |-> testBlocks]
    ELSE IF i >= Len(offsetTable)
    THEN [canRotate |-> FALSE, threw |-> TRUE, test |-> i, blocks |-> testBlocks]
    ELSE LET offset == testOffset(offsetTable, i,
                                  g.playerPiece.rotationIndex, target)
             moved == shiftBlocks(testBlocks, offset)
             canRotate == \A j \in 1..4 :
                              ~isBlockHere(g, moved[j][1], moved[j][2])
         IN  IF canRotate
             THEN [canRotate |-> TRUE, threw |-> FALSE, test |-> i, blocks |-> moved]
             ELSE rotationTests(g, testBlocks, offsetTable, target, i + 1)

\* Faulty variant of resolveRotation: the rotation index is set whether or not
\* a test succeeded.
resolveRotationIndexAnyway(g, clockwise) ==
    LET rotationTargetIndex ==
            (g.playerPiece.rotationIndex + 4 + (IF clockwise THEN 1 ELSE -1)) % 4
        testBlocks == rotatedBlocks(g.playerPiece.blocks, clockwise)
        offsetTable == offsetTableOf(g.playerPiece.shape)
        t == rotationTests(g, testBlocks, offsetTable, rotationTargetIndex, 0)
    IN  [g |-> [g EXCEPT !.playerPiece.blocks =
                             IF t.canRotate THEN t.blocks ELSE @,
                         !.playerPiece.rotationIndex = rotationTargetIndex],
         ret |-> t.canRotate, threw |-> t.threw, test |-> t.test]

\* #resolveRotation(clockwise)
resolveRotation(g, clockwise) ==
    LET rotationTargetIndex ==
            (g.playerPiece.rotationIndex + 4 + (IF clockwise THEN 1 ELSE -1)) % 4
        testBlocks == rotatedBlocks(g.playerPiece.blocks, clockwise)
        offsetTable == offsetTableOf(g.playerPiece.shape)
        t == rotationTests(g, testBlocks, offsetTable, rotationTargetIndex, 0)
    IN  [g |-> IF t.canRotate
               THEN [g EXCEPT !.playerPiece.blocks = t.blocks,
                              !.playerPiece.rotationIndex = rotationTargetIndex]
               ELSE g,
         ret |-> t.canRotate, threw |-> t.threw, test |-> t.test]

\* tryRotatePiece(clockwise)
tryRotatePiece(g, clockwise) ==
    LET r == resolveRotation(g, clockwise)
    IN  [r EXCEPT !.g = IF r.ret THEN boostGraceTimer(r.g) ELSE r.g]

----------------------------------------------------------------------------
(* Locking a piece *)

\* #depositPlayerPiece()
depositPlayerPiece(g) ==
    LET color == pieceMap(g.playerPiece.shape)
        b == g.playerPiece.blocks
        \* the grid after each block is computed once and handed on as a value
        g1 == placeBlockHere(g, b[1][1], b[1][2], color)
        g2 == CHOOSE r \in {placeBlockHere(v, b[2][1], b[2][2], color) :
                               v \in {g1}} : TRUE
        g3 == CHOOSE r \in {placeBlockHere(v, b[3][1], b[3][2], color) :
                               v \in {g2}} : TRUE
    IN  CHOOSE r \in {placeBlockHere(v, b[4][1], b[4][2], color) :
                         v \in {g3}} : TRUE

\* the row test of #resolveLineClears
fullRow(g, y) == \A x \in 0..(numCols - 1) : isBlockHere(g, x, y)

\* Faulty variant of lineClearLoop: the scan goes on above a cleared row
\* without examining the row that has come down into its place.
RECURSIVE lineClearLoopNoRecheck(_, _)
lineClearLoopNoRecheck(g, y) ==
    IF y >= numRows THEN g
    ELSE IF fullRow(g, y)
    THEN lineClearLoopNoRecheck(
             [clearRow(g, y) EXCEPT !.linesCleared = @ + 1], y + 1)
    ELSE lineClearLoopNoRecheck(g, y + 1)

\* The loop of #resolveLineClears from row y on (a cleared row is examined
\* again: y--, then y++).
RECURSIVE lineClearLoop(_, _)
lineClearLoop(g, y) ==
    IF y >= numRows THEN g
    ELSE IF fullRow(g, y)
    THEN lineClearLoop([clearRow(g, y) EXCEPT !.linesCleared = @ + 1], y)
    ELSE lineClearLoop(g, y + 1)

\* #resolveLineClears()
resolveLineClears(g) == lineClearLoop(g, 0)

\* Faulty variant of updateSpeedLevel: the level rises one line late.
updateSpeedLevelLate(g) ==
    LET level == IF ((g.linesCleared + 9) \div 10) < levelsMax
                 THEN IF g.linesCleared = 0 THEN 1
                      ELSE (g.linesCleared + 9) \div 10
                 ELSE levelsMax
    IN  [g EXCEPT !.speedLevel = level, !.ticksPerGravity = levels(level)]

\* #updateSpeedLevel()
updateSpeedLevel(g) ==
    LET level == IF (g.linesCleared \div 10) + 1 < levelsMax
                 THEN (g.linesCleared \div 10) + 1 ELSE levelsMax
    IN  [g EXCEPT !.speedLevel = level, !.ticksPerGravity = levels(level)]

\* The loop of #updateGhostProjections: move the ghost blocks down until one
\* of them would collide.
RECURSIVE ghostLoop(_, _)
ghostLoop(g, ghost) ==
    IF \E i \in 1..4 : isBlockHere(g, ghost[i][1], ghost[i][2] - 1)
    THEN ghost
    \* the lowered blocks are computed once and handed on as a value
    ELSE CHOOSE r \in {ghostLoop(g, lower) :
                          lower \in {shiftBlocks(ghost, <<0, -1>>)}} : TRUE

\* #updateGhostProjections()
updateGhostProjections(g) ==
    [g EXCEPT !.ghostBlocks = ghostLoop(g, g.playerPiece.blocks)]

\* Faulty variant of finishWithPiece: the rows are cleared before the next
\* piece is drawn.
finishWithPieceClearFirst(g, choices) ==
    LET previousLinesCleared == g.linesCleared
        g1 == CHOOSE r \in {depositPlayerPiece(g0) : g0 \in {g}} : TRUE
        g2 == CHOOSE r \in {resolveLineClears(d) : d \in {g1}} : TRUE
        g3 == CHOOSE r \in {grabNextPiece(n, choices) : n \in {g2}} : TRUE
        g4 == [g3 EXCEPT !.timerRunning = FALSE]
    IN  CHOOSE r \in {IF c.linesCleared # previousLinesCleared
                      THEN updateSpeedLevel(c) ELSE c : c \in {g4}} : TRUE

\* finishWithPiece()
finishWithPiece(g, choices) ==
    LET previousLinesCleared == g.linesCleared
        \* each step is computed once and handed on as a value
        g1 == CHOOSE r \in {depositPlayerPiece(g0) : g0 \in {g}} : TRUE
        g2 == CHOOSE r \in {grabNextPiece(d, choices) : d \in {g1}} : TRUE
        g3 == [g2 EXCEPT !.timerRunning = FALSE]
        g4 == CHOOSE r \in {resolveLineClears(n) : n \in {g3}} : TRUE
    IN  CHOOSE r \in {IF c.linesCleared # previousLinesCleared
                      THEN updateSpeedLevel(c) ELSE c : c \in {g4}} : TRUE

\* Faulty variant of holdPiece: the swap takes the held piece out and leaves
\* the hold slot empty.
holdPieceTake(g, choices) ==
    IF g.heldPiece = NoShape
    THEN grabNextPiece([g EXCEPT !.heldPiece = g.playerPiece.shape], choices)
    ELSE IF ~g.playerPiece.wasHeld
    THEN LET g1 == [g EXCEPT !.heldPiece = NoShape,
                             !.playerPiece =
                                 [QuadPiece(g.heldPiece) EXCEPT !.wasHeld = TRUE]]
         IN  IF ~isPlayerPieceValid(g1)
             THEN [g1 EXCEPT !.playerPiece.active = FALSE,
                             !.gameOverAnimation = TRUE]
             ELSE g1
    ELSE g

\* Faulty variant of holdPiece: the swapped-in piece is not checked.
holdPieceNoCheck(g, choices) ==
    IF g.heldPiece = NoShape
    THEN grabNextPiece([g EXCEPT !.heldPiece = g.playerPiece.shape], choices)
    ELSE IF ~g.playerPiece.wasHeld
    THEN [g EXCEPT !.heldPiece = g.playerPiece.shape,
                   !.playerPiece =
                       [QuadPiece(g.heldPiece) EXCEPT !.wasHeld = TRUE]]
    ELSE g

\* holdPiece()
holdPiece(g, choices) ==
    IF g.heldPiece = NoShape
    THEN grabNextPiece([g EXCEPT !.heldPiece = g.playerPiece.shape], choices)
    ELSE IF ~g.playerPiece.wasHeld
    THEN LET nextPiece == g.heldPiece
             g1 == [g EXCEPT !.heldPiece = g.playerPiece.shape,
                             !.playerPiece =
                                 [QuadPiece(nextPiece) EXCEPT !.wasHeld = TRUE]]
         IN  IF ~isPlayerPieceValid(g1)
             THEN [g1 EXCEPT !.playerPiece.active = FALSE,
                             !.gameOverAnimation = TRUE]
             ELSE g1
    ELSE g

----------------------------------------------------------------------------
(* Construction and lifecycle *)

NoCount == -1   \* animationCount / rowCount being undefined or null

\* The field initialisers of the class, before the constructor body runs.
fieldInitialisers ==
    [ isPaused |-> FALSE,
      gameOver |-> TRUE,
      gridData |-> emptyGrid,
      playerPiece |-> QuadPiece(NoShape),   \* null: replaced before any use
      pieceQueue |-> << >>,
      heldPiece |-> NoShape,
      ghostBlocks |-> << <<0, 0>>, <<0, 0>>, <<0, 0>>, <<0, 0>> >>,
      linesCleared |-> 0,
      speedLevel |-> 1,
      ticksPerGravity |-> defaultTicksPerGravity,
      isStateChanged |-> TRUE,
      gravityTickCounter |-> 0,
      graceTimer |-> -2 * graceTimerDuration,    \* -1 s
      graceBoostCount |-> 0,
      timerRunning |-> FALSE,
      gameOverAnimation |-> FALSE,
      animationCount |-> NoCount,
      rowCount |-> NoCount ]

\* constructor(): c1, c2 are the picks of its two refills
constructor(c1, c2) ==
    LET g1 == refillPieceQueue(fieldInitialisers, c1)
        g2 == grabNextPiece(g1, c2)
        g3 == updateGhostProjections(g2)
    IN  [g3 EXCEPT !.ticksPerGravity = defaultTicksPerGravity,
                   !.isPaused = TRUE]

\* Faulty variant of startNewGame: the speed level is not recomputed.
startNewGameNoLevel(g, c1, c2) ==
    LET g1 == [g EXCEPT !.gameOver = FALSE,
                        !.isPaused = FALSE,
                        !.gameOverAnimation = FALSE,
                        !.animationCount = NoCount,
                        !.rowCount = NoCount,
                        !.gridData = emptyGrid,
                        !.linesCleared = 0,
                        !.speedLevel = 0,
                        !.pieceQueue = << >>]
        g2 == refillPieceQueue(g1, c1)
        g3 == grabNextPiece(g2, c2)
    IN  updateGhostProjections(g3)

\* startNewGame(): c1, c2 are the picks of its two refills
startNewGame(g, c1, c2) ==
    LET g1 == [g EXCEPT !.gameOver = FALSE,
                        !.isPaused = FALSE,
                        !.gameOverAnimation = FALSE,
                        !.animationCount = NoCount,
                        !.rowCount = NoCount,
                        !.gridData = emptyGrid,
                        !.linesCleared = 0,
                        !.speedLevel = 0,
                        !.pieceQueue = << >>]
        g2 == refillPieceQueue(g1, c1)
        g3 == grabNextPiece(g2, c2)
        g4 == updateGhostProjections(g3)
    IN  updateSpeedLevel(g4)

\* Faulty variant of pauseGame: the flag is toggled, whatever the argument.
pauseGameToggle(g, pause) == [g EXCEPT !.isPaused = ~g.isPaused]

\* pauseGame(pause)
pauseGame(g, pause) == [g EXCEPT !.isPaused = pause]

\* get isStateChanged(): the object after the read, and the value read
readIsStateChanged(g) ==
    [g |-> [g EXCEPT !.isStateChanged = FALSE], ret |-> g.isStateChanged]

\* gameState: the snapshot the object exposes to the renderer
exposed(g) ==
    [ gridData |-> g.gridData, playerPiece |-> g.playerPiece,
      ghostBlocks |-> g.ghostBlocks, pieceQueue |-> g.pieceQueue,
      heldPiece |-> g.heldPiece, linesCleared |-> g.linesCleared,
      speedLevel |-> g.speedLevel, isPaused |-> g.isPaused,
      gameOver |-> g.gameOver ]

----------------------------------------------------------------------------
(* Tick orchestrator.  `in` is what runTick reads from the input module    *)
(* after inputMod.updateCounters(): hardDrop, hold, rotateCW, rotateACW    *)
(* are getCounter(..) == 1, softDrop is getInputState("SoftDrop"), and     *)
(* moveLeft / moveRight are getCounter(..) == 1 || getCounter(..) > 5.     *)

NoInput ==
    [ hardDrop |-> FALSE, hold |-> FALSE, softDrop |-> FALSE,
      rotateCW |-> FALSE, rotateACW |-> FALSE,
      moveLeft |-> FALSE, moveRight |-> FALSE ]

\* what one runTick call observed (its branch and the results of its calls)
NoEvents ==
    [ branch |-> "none", soft |-> "none", rot |-> "none", rotTest |-> -1,
      mv |-> "none", grav |-> "none", expiry |-> "none",
      locked |-> FALSE, drew |-> FALSE, rowRemoved |-> FALSE,
      boosts |-> 0, capped |-> FALSE, threw |-> FALSE ]

outcome(attempted, ret) ==
    IF ~attempted THEN "none" ELSE IF ret THEN "ok" ELSE "fail"

\* Faulty variant of endOfTick: #isStateChanged = pieceMoved.
endOfTickAssign(g, pieceMoved) ==
    IF pieceMoved
    THEN [updateGhostProjections(g) EXCEPT !.isStateChanged = TRUE]
    ELSE [g EXCEPT !.isStateChanged = FALSE]

\* if (pieceMoved) { #updateGhostProjections(); #isStateChanged = true; }
endOfTick(g, pieceMoved) ==
    IF pieceMoved
    THEN [updateGhostProjections(g) EXCEPT !.isStateChanged = TRUE]
    ELSE g

\* Faulty variant of the animation branch: game over is declared one row early.
animationTickEarlyEnd(g) ==
    IF g.animationCount = NoCount \/ g.rowCount = NoCount
    THEN [g |-> [g EXCEPT !.animationCount = 0, !.rowCount = 0],
          ev |-> [NoEvents EXCEPT !.branch = "animation"]]
    ELSE LET g1 == [g EXCEPT !.animationCount = @ + 1]
         IN  IF g1.rowCount < numRows - 1
                /\ g1.animationCount % animationPeriod = 0
             THEN [g |-> [clearRow(g1, 0) EXCEPT !.rowCount = @ + 1,
                                                 !.isStateChanged = TRUE],
                   ev |-> [NoEvents EXCEPT !.branch = "animation",
                                           !.rowRemoved = TRUE]]
             ELSE IF g1.rowCount = numRows - 1
             THEN [g |-> [g1 EXCEPT !.rowCount = @ + 1, !.gameOver = TRUE],
                   ev |-> [NoEvents EXCEPT !.branch = "animation"]]
             ELSE [g |-> g1, ev |-> [NoEvents EXCEPT !.branch = "animation"]]

\* the game over animation branch of runTick
animationTick(g) ==
    IF g.animationCount = NoCount \/ g.rowCount = NoCount
    THEN [g |-> [g EXCEPT !.animationCount = 0, !.rowCount = 0],
          ev |-> [NoEvents EXCEPT !.branch = "animation"]]
    ELSE LET g1 == [g EXCEPT !.animationCount = @ + 1]
         IN  IF g1.rowCount < numRows /\ g1.animationCount % animationPeriod = 0
             THEN [g |-> [clearRow(g1, 0) EXCEPT !.rowCount = @ + 1,
                                                 !.isStateChanged = TRUE],
                   ev |-> [NoEvents EXCEPT !.branch = "animation",
                                           !.rowRemoved = TRUE]]
             ELSE IF g1.rowCount = numRows
             THEN [g |-> [g1 EXCEPT !.rowCount = @ + 1, !.gameOver = TRUE],
                   ev |-> [NoEvents EXCEPT !.branch = "animation"]]
             ELSE [g |-> g1, ev |-> [NoEvents EXCEPT !.branch = "animation"]]

(* The last branch of runTick, step by step.  Each step is handed the     *)
(* results of the steps before it: s1 (soft drop), s2 (rotation), s3      *)
(* (move), s5 (gravity) and s8 (lock timer).                               *)

\* 1 - soft drop
tickSoftDrop(g, in) ==
    IF in.softDrop THEN tryMovePiece(g, 0, -1) ELSE [g |-> g, ret |-> FALSE]

\* Faulty variant of rotationOf: the clockwise turn wins over the other.
rotationOfClockwiseFirst(in) ==
    IF in.rotateCW THEN 1 ELSE IF in.rotateACW THEN -1 ELSE 0

\* 2 - rotate piece
rotationOf(in) ==
    (IF in.rotateCW THEN 1 ELSE 0) - (IF in.rotateACW THEN 1 ELSE 0)

tickRotate(g, in) ==
    IF rotationOf(in) # 0 THEN tryRotatePiece(g, rotationOf(in) = 1)
    ELSE [g |-> g, ret |-> FALSE, threw |-> FALSE, test |-> -1]

\* 3 - move piece
movementOf(in) ==
    (IF in.moveRight THEN 1 ELSE 0) - (IF in.moveLeft THEN 1 ELSE 0)

tickMove(g, in) ==
    IF movementOf(in) # 0 THEN tryMovePiece(g, movementOf(in), 0)
    ELSE [g |-> g, ret |-> FALSE]

\* gravity is due: s is the result of tryMovePiece(0, -1)
gravityDue(s) ==
    LET g5 == [s.g EXCEPT !.gravityTickCounter = 0]
    IN  [g |-> IF ~s.ret /\ ~g5.timerRunning THEN startGraceTimer(g5) ELSE g5,
         due |-> TRUE, ret |-> s.ret]

\* #gravityTickCounter++ and what follows it
tickGravity(g) ==
    LET g4 == [g EXCEPT !.gravityTickCounter = @ + 1]
    IN  IF g4.gravityTickCounter >= g4.ticksPerGravity
        THEN gravityDue(tryMovePiece(g4, 0, -1))
        ELSE [g |-> g4, due |-> FALSE, ret |-> FALSE]

\* Faulty variant of timerExpired: the piece is locked whether or not it
\* could still go down.
timerExpiredLockAlways(s, choices) ==
    [g |-> finishWithPiece(s.g, choices), expiry |-> "locked"]

\* the countdown has run out: s is the result of tryMovePiece(0, -1)
timerExpired(s, choices) ==
    IF s.ret THEN [g |-> s.g, expiry |-> "moved"]
    ELSE [g |-> finishWithPiece(s.g, choices), expiry |-> "locked"]

\* the timer runs: g7 is the object after #updateGraceTimer
timerUpdated(g7, choices) ==
    IF graceElapsed(g7) THEN timerExpired(tryMovePiece(g7, 0, -1), choices)
    ELSE [g |-> g7, expiry |-> "none"]

\* if (this.#timerRunning) { ... }
tickTimer(g, choices) ==
    IF g.timerRunning THEN timerUpdated(updateGraceTimer(g, 1), choices)
    ELSE [g |-> g, expiry |-> "none"]

\* a boost took effect in the call that led from `before` to `after`
boosted(before, after) ==
    IF after.graceBoostCount # before.graceBoostCount THEN 1 ELSE 0

\* the call succeeded on a running timer and no boost took effect
cappedCall(before, s) ==
    s.ret /\ before.timerRunning /\ boosted(before, s.g) = 0

\* Faulty variant of playEnd: a sideways move does not set pieceMoved.
playEndMoveQuiet(g, s1, s2, s3, s5, s8, in) ==
    [g |-> endOfTick(s8.g, s1.ret \/ s2.ret \/ (s5.due /\ s5.ret)
                               \/ s8.expiry # "none"),
     ev |-> [NoEvents EXCEPT
               !.branch = "play",
               !.soft = outcome(in.softDrop, s1.ret),
               !.rot = outcome(rotationOf(in) # 0, s2.ret),
               !.rotTest = s2.test,
               !.mv = outcome(movementOf(in) # 0, s3.ret),
               !.grav = outcome(s5.due, s5.ret),
               !.expiry = s8.expiry,
               !.locked = (s8.expiry = "locked"),
               !.drew = (s8.expiry = "locked"),
               !.boosts = boosted(s1.g, s2.g) + boosted(s2.g, s3.g),
               !.capped = cappedCall(s1.g, s2) \/ cappedCall(s2.g, s3)]]

\* the end of the branch: pieceMoved, and what the tick observed
playEnd(g, s1, s2, s3, s5, s8, in) ==
    [g |-> endOfTick(s8.g, s1.ret \/ s2.ret \/ s3.ret \/ (s5.due /\ s5.ret)
                               \/ s8.expiry # "none"),
     ev |-> [NoEvents EXCEPT
               !.branch = "play",
               !.soft = outcome(in.softDrop, s1.ret),
               !.rot = outcome(rotationOf(in) # 0, s2.ret),
               !.rotTest = s2.test,
               !.mv = outcome(movementOf(in) # 0, s3.ret),
               !.grav = outcome(s5.due, s5.ret),
               !.expiry = s8.expiry,
               !.locked = (s8.expiry = "locked"),
               !.drew = (s8.expiry = "locked"),
               \* boosts that took effect, and successful moves / rotations
               \* on a running timer that took none
               !.boosts = boosted(s1.g, s2.g) + boosted(s2.g, s3.g),
               !.capped = cappedCall(s1.g, s2) \/ cappedCall(s2.g, s3)]]

\* Each step of the branch is computed once and handed on as a value: the
\* result of a step is the one element of the set its successor is drawn
\* from.
playTimer(g, s1, s2, s3, s5, in, choices) ==
    CHOOSE r \in {playEnd(g, s1, s2, s3, s5, s8, in) :
                     s8 \in {tickTimer(s5.g, choices)}} : TRUE

playGravity(g, s1, s2, s3, in, choices) ==
    CHOOSE r \in {playTimer(g, s1, s2, s3, s5, in, choices) :
                     s5 \in {tickGravity(s3.g)}} : TRUE

playMove(g, s1, s2, in, choices) ==
    IF s2.threw
    \* the TypeError leaves runTick: nothing after the rotation runs
    THEN [g |-> s1.g,
          ev |-> [NoEvents EXCEPT !.branch = "play",
                                  !.soft = outcome(in.softDrop, s1.ret),
                                  !.rot = "throw", !.rotTest = s2.test,
                                  !.threw = TRUE]]
    ELSE CHOOSE r \in {playGravity(g, s1, s2, s3, in, choices) :
                          s3 \in {tickMove(s2.g, in)}} : TRUE

playRotate(g, s1, in, choices) ==
    CHOOSE r \in {playMove(g, s1, s2, in, choices) :
                     s2 \in {tickRotate(s1.g, in)}} : TRUE

\* the last branch of runTick: soft drop, rotation, move, gravity, lock timer
playTick(g, in, choices) ==
    CHOOSE r \in {playRotate(g, s1, in, choices) :
                     s1 \in {tickSoftDrop(g, in)}} : TRUE

\* Faulty variant of runTick: the game over animation runs in a paused game.
runTickPauseLate(g, in, choices) ==
    IF g.gameOverAnimation
    THEN animationTick(g)
    ELSE IF g.isPaused
    THEN [g |-> g, ev |-> [NoEvents EXCEPT !.branch = "paused"]]
    ELSE IF in.hardDrop
    THEN [g |-> endOfTick(finishWithPiece(hardDropPlayerPiece(g), choices), TRUE),
          ev |-> [NoEvents EXCEPT !.branch = "hardDrop",
                                  !.locked = TRUE, !.drew = TRUE]]
    ELSE IF in.hold
    THEN [g |-> endOfTick(holdPiece(g, choices), TRUE),
          ev |-> [NoEvents EXCEPT !.branch = "hold",
                                  !.drew = (g.heldPiece = NoShape)]]
    ELSE playTick(g, in, choices)

\* Faulty variant of runTick: the hard drop and the hold are examined before
\* the game over animation.
runTickAnimationLate(g, in, choices) ==
    IF g.isPaused
    THEN [g |-> g, ev |-> [NoEvents EXCEPT !.branch = "paused"]]
    ELSE IF in.hardDrop
    THEN [g |-> endOfTick(finishWithPiece(hardDropPlayerPiece(g), choices), TRUE),
          ev |-> [NoEvents EXCEPT !.branch = "hardDrop",
                                  !.locked = TRUE, !.drew = TRUE]]
    ELSE IF in.hold
    THEN [g |-> endOfTick(holdPiece(g, choices), TRUE),
          ev |-> [NoEvents EXCEPT !.branch = "hold",
                                  !.drew = (g.heldPiece = NoShape)]]
    ELSE IF g.gameOverAnimation
    THEN animationTick(g)
    ELSE playTick(g, in, choices)

\* Faulty variant of runTick: the hold is examined before the hard drop.
runTickHoldFirst(g, in, choices) ==
    IF g.isPaused
    THEN [g |-> g, ev |-> [NoEvents EXCEPT !.branch = "paused"]]
    ELSE IF g.gameOverAnimation
    THEN animationTick(g)
    ELSE IF in.hold
    THEN [g |-> endOfTick(holdPiece(g, choices), TRUE),
          ev |-> [NoEvents EXCEPT !.branch = "hold",
                                  !.drew = (g.heldPiece = NoShape)]]
    ELSE IF in.hardDrop
    THEN [g |-> endOfTick(finishWithPiece(hardDropPlayerPiece(g), choices), TRUE),
          ev |-> [NoEvents EXCEPT !.branch = "hardDrop",
                                  !.locked = TRUE, !.drew = TRUE]]
    ELSE playTick(g, in, choices)

\* runTick(inputMod)
runTick(g, in, choices) ==
    IF g.isPaused
    THEN [g |-> g, ev |-> [NoEvents EXCEPT !.branch = "paused"]]
    ELSE IF g.gameOverAnimation
    THEN animationTick(g)
    ELSE IF in.hardDrop
    THEN [g |-> endOfTick(finishWithPiece(hardDropPlayerPiece(g), choices), TRUE),
          ev |-> [NoEvents EXCEPT !.branch = "hardDrop",
                                  !.locked = TRUE, !.drew = TRUE]]
    ELSE IF in.hold
    THEN [g |-> endOfTick(holdPiece(g, choices), TRUE),
          ev |-> [NoEvents EXCEPT !.branch = "hold",
                                  !.drew = (g.heldPiece = NoShape)]]
    ELSE playTick(g, in, choices)

----------------------------------------------------------------------------
(* History of the current game: what was dequeued, locked and wiped so far. *)

NeverDrawn == 0 - 1

histNewGame ==
    [ draws |-> 0,                 \* pieces dequeued in this game
      locks |-> 0,                 \* pieces locked in this game
      cleared |-> 0,               \* rows the last locked piece completed
      steers |-> 0,                \* ticks other than hard drops, up to MaxSteers
      group |-> {},                \* shapes dequeued in the current group of 7
      repeated |-> FALSE,          \* a shape came twice within one group
      since |-> [s \in Shapes |-> NeverDrawn],
                                   \* dequeues of other shapes since s came
      gap |-> NeverDrawn,          \* `since` of the last dequeued shape, as
                                   \* it stood when that shape came again
      animTicks |-> 0,             \* ticks of the game over animation
      wiped |-> 0,                 \* rows the animation removed
      unseen |-> TRUE ]            \* the snapshot changed since isStateChanged
                                   \* was last read (kept across games)

\* the record h after a call that took the object from g to after
histSeen(h, g, after) ==
    [h EXCEPT !.unseen = @ \/ exposed(after) # exposed(g)]

histDraw(h, shape) ==
    [h EXCEPT
        !.draws = @ + 1,
        !.group = IF h.draws % bagSize = 0 THEN {shape} ELSE @ \cup {shape},
        !.repeated = @ \/ (h.draws % bagSize # 0 /\ shape \in h.group),
        !.since = [s \in Shapes |->
                     IF s = shape THEN 0
                     ELSE IF h.since[s] = NeverDrawn THEN NeverDrawn
                     ELSE h.since[s] + 1],
        !.gap = h.since[shape]]

histTick(h, g, ev) ==
    LET h1 == IF ev.locked THEN [h EXCEPT !.locks = @ + 1] ELSE h
        h2 == IF ev.branch \in {"play", "hold"} /\ h1.steers < MaxSteers
              THEN [h1 EXCEPT !.steers = @ + 1] ELSE h1
        h3 == IF ev.branch = "animation"
              THEN [h2 EXCEPT !.animTicks = @ + 1,
                              !.wiped = IF ev.rowRemoved THEN @ + 1 ELSE @]
              ELSE h2
    IN  IF ev.drew THEN histDraw(h3, g.pieceQueue[1]) ELSE h3

\* ret is the value the isStateChanged getter returned
NoLast == [op |-> "none", in |-> NoInput, ev |-> NoEvents, ret |-> FALSE]

\* A refill can only happen in a call that finds at most 7 queued pieces;
\* otherwise the picks are not read.
PicksFor(g, picks) ==
    IF Len(g.pieceQueue) <= bagSize THEN picks
    ELSE {<<0, 0, 0, 0, 0, 0, 0>>}

----------------------------------------------------------------------------
(* Input module (src/unnamed/part_005).                                    *)

ActionNames ==
    {"HardDrop", "SoftDrop", "MoveLeft", "MoveRight", "Hold",
     "RotateClockwise", "RotateAntiClockwise", "Pause"}

\* the actions that have a counter
CounterNames == ActionNames \ {"SoftDrop"}

NoAction == "undefined"

\* this.inputKeys of the constructor
inputKeys(key) ==
    CASE key = "A" -> "MoveLeft"
      [] key = "D" -> "MoveRight"
      [] key = "W" -> "HardDrop"
      [] key = "S" -> "SoftDrop"
      [] key = "E" -> "Hold"
      [] key = "ArrowLeft" -> "RotateAntiClockwise"
      [] key = "J" -> "RotateAntiClockwise"
      [] key = "ArrowRight" -> "RotateClockwise"
      [] key = "L" -> "RotateClockwise"
      [] key = "Escape" -> "Pause"
      [] OTHER -> NoAction

\* key.toUpperCase() for the letters of the bindings
toUpperCase(key) ==
    CASE key = "a" -> "A" [] key = "d" -> "D" [] key = "w" -> "W"
      [] key = "s" -> "S" [] key = "e" -> "E" [] key = "j" -> "J"
      [] key = "l" -> "L" [] OTHER -> key

\* keyToState(key)
keyToState(key) == inputKeys(toUpperCase(key))

\* new QuadtrisInput()
QuadtrisInput ==
    [ actionStates |-> [a \in ActionNames |-> FALSE],
      counters |-> [a \in CounterNames |-> 0] ]

\* setInputState(key, value)
setInputState(m, key, value) ==
    IF keyToState(key) # NoAction
    THEN [m EXCEPT !.actionStates[keyToState(key)] = value]
    ELSE m

\* getInputState(inputAction)
getInputState(m, inputAction) == m.actionStates[inputAction]

\* Faulty variant of updateCounters: the counter of a released action is
\* kept.
updateCountersKeep(m) ==
    [m EXCEPT !.counters =
        [a \in CounterNames |->
            IF getInputState(m, a) THEN m.counters[a] + 1 ELSE m.counters[a]]]

\* updateCounters()
updateCounters(m) ==
    [m EXCEPT !.counters =
        [a \in CounterNames |->
            IF getInputState(m, a) THEN m.counters[a] + 1 ELSE 0]]

\* getCounter(inputAction)
getCounter(m, inputAction) == m.counters[inputAction]

\* what runTick reads from the input module after updateCounters()
readings(m) ==
    [ hardDrop |-> getCounter(m, "HardDrop") = 1,
      hold |-> getCounter(m, "Hold") = 1,
      softDrop |-> getInputState(m, "SoftDrop"),
      rotateCW |-> getCounter(m, "RotateClockwise") = 1,
      rotateACW |-> getCounter(m, "RotateAntiClockwise") = 1,
      moveLeft |-> getCounter(m, "MoveLeft") = 1
                   \/ getCounter(m, "MoveLeft") > 5,
      moveRight |-> getCounter(m, "MoveRight") = 1
                    \/ getCounter(m, "MoveRight") > 5 ]

\* no key is down and none has been pressed
NoKeys ==
    [ down |-> {},
      presses |-> [a \in CounterNames |-> 0],
      fires |-> [a \in CounterNames |-> 0] ]

----------------------------------------------------------------------------
(* Actions: the calls the driver makes (src/unnamed/part_000).             *)

\* new QuadtrisGame(), the picks of its two refills drawn from picks1, picks2
Constructed(picks1, picks2) ==
    \E c1 \in picks1, c2 \in picks2 :
        /\ game = constructor(c1, c2)
        /\ last = [NoLast EXCEPT !.op = "constructor"]
        /\ hist = histDraw(histNewGame,
                           refillPieceQueue(fieldInitialisers, c1).pieceQueue[1])
        /\ inputMod = QuadtrisInput
        /\ keys = NoKeys

\* the start and replay buttons: shown while gameState.gameOver
StartNewGame(picks1, picks2) ==
    /\ game.gameOver
    /\ \E c1 \in picks1, c2 \in picks2 :
        /\ game' = startNewGame(game, c1, c2)
        /\ hist' = histSeen(
                       [histDraw(histNewGame,
                                 refillPieceQueue(fieldInitialisers, c1).pieceQueue[1])
                           EXCEPT !.unseen = hist.unseen],
                       game, game')
    /\ last' = [NoLast EXCEPT !.op = "startNewGame"]
    /\ UNCHANGED <<inputMod, keys>>

\* what one game tick with the readings `in` does to the game; ticks run
\* while !gameState.gameOver
TickWith(in, picks) ==
    /\ ~game.gameOver
    /\ \E choices \in PicksFor(game, picks) :
         \E r \in {runTick(game, in, choices)} :
             /\ game' = r.g
             /\ last' = [NoLast EXCEPT !.op = "runTick", !.in = in, !.ev = r.ev]
             /\ hist' = [histSeen(histTick(hist, game, r.ev), game, r.g) EXCEPT
                             !.cleared =
                                 IF r.ev.locked
                                 THEN r.g.linesCleared - game.linesCleared
                                 ELSE @]

\* one game tick with the readings `in`, whatever the keys that gave them
Tick(in, picks) ==
    /\ TickWith(in, picks)
    /\ UNCHANGED <<inputMod, keys>>

\* game.pauseGame(pause): the pause button (pause = true, at any time) and
\* the pause key, which the driver reads after a tick and turns into
\* pauseGame(!isPaused)
PauseGame(pause) ==
    /\ pause \/ (~game.gameOver /\ game.isPaused)
    /\ game' = pauseGame(game, pause)
    /\ last' = [NoLast EXCEPT !.op = "pauseGame"]
    /\ hist' = histSeen(hist, game, game')
    /\ UNCHANGED <<inputMod, keys>>

\* if (game.isStateChanged) renderer.updateData(..): read on every frame of
\* a game that is not over
ReadIsStateChanged ==
    /\ ~game.gameOver
    /\ game' = readIsStateChanged(game).g
    /\ last' = [NoLast EXCEPT !.op = "isStateChanged",
                              !.ret = readIsStateChanged(game).ret]
    /\ hist' = [hist EXCEPT !.unseen = FALSE]
    /\ UNCHANGED <<inputMod, keys>>

HardDrop == [NoInput EXCEPT !.hardDrop = TRUE]
Hold == [NoInput EXCEPT !.hold = TRUE]
SoftDrop == [NoInput EXCEPT !.softDrop = TRUE]
RotateCW == [NoInput EXCEPT !.rotateCW = TRUE]
RotateACW == [NoInput EXCEPT !.rotateACW = TRUE]
MoveLeft == [NoInput EXCEPT !.moveLeft = TRUE]
MoveRight == [NoInput EXCEPT !.moveRight = TRUE]

----------------------------------------------------------------------------
(* Steering specification.  The pieces come as Z, S, L, J, T, I, O and     *)
(* then either the same again or Z, S, I, O, L, J, T.  The player drops    *)
(* the first OpeningLocks pieces where they spawn, which builds a stack up *)
(* to the spawn rows, and from then on steers or holds (one input a tick)  *)
(* on at most MaxSteers ticks of the game, dropping a piece at any time.   *)
(* It ends where the game over animation begins.                           *)

SteerInputs == {SoftDrop, RotateCW, RotateACW, MoveLeft, MoveRight, Hold}

Init == Constructed(LastPicks, TopPicks)

StartGame == StartNewGame(LastPicks, TopPicks)

DropTick ==
    /\ ~game.gameOverAnimation
    /\ Tick(HardDrop, LastPicks)

SteerTick ==
    /\ ~game.gameOverAnimation
    /\ hist.locks >= OpeningLocks
    /\ hist.steers < MaxSteers
    /\ \E in \in SteerInputs : Tick(in, LastPicks)

Next ==
    \/ StartGame
    \/ DropTick
    \/ SteerTick

Spec == Init /\ [][Next]_vars

----------------------------------------------------------------------------
(* Queue specification.  The picks of every refill range over QueuePicks.  *)
(* The player builds two stacks, moving each piece to the left or to the   *)
(* right one in turn and dropping it there, and holds once; up to MaxDraws *)
(* pieces are dequeued in a game.                                          *)

\* blocks[0] is moved to column 1 or to column 6
laneInput(g, h) ==
    LET target == IF h.locks % 2 = 0 THEN 1 ELSE 6
        x == g.playerPiece.blocks[1][1]
    IN  IF g.heldPiece = NoShape /\ h.locks = 2 THEN Hold
        ELSE IF x > target THEN MoveLeft
        ELSE IF x < target THEN MoveRight
        ELSE HardDrop

InitQueue == Constructed(QueuePicks, QueuePicks)

StartQueue == StartNewGame(QueuePicks, QueuePicks)

LaneTick ==
    /\ hist.draws < MaxDraws
    /\ Tick(laneInput(game, hist), QueuePicks)

NextQueue ==
    \/ StartQueue
    \/ LaneTick

SpecQueue == InitQueue /\ [][NextQueue]_vars

----------------------------------------------------------------------------
(* Lock timer specification: the first piece (Z) of a game, soft dropped,  *)
(* rotated and moved to the left at will until it locks.                   *)

GraceInputs == {SoftDrop, RotateCW, MoveLeft}

InitGrace == Constructed(LastPicks, LastPicks)

StartGrace == StartNewGame(LastPicks, LastPicks)

GraceTick ==
    /\ hist.locks < MaxLocks
    /\ \E in \in GraceInputs : Tick(in, LastPicks)

NextGrace ==
    \/ StartGrace
    \/ GraceTick

SpecGrace == InitGrace /\ [][NextGrace]_vars

----------------------------------------------------------------------------
(* Stacking specification: the pieces Z, S, L, J, T, I, O in turn, each    *)
(* dropped where it spawns, or held; the game over animation; the replay.  *)

StackInputs == {HardDrop, Hold}

InitStack == Constructed(LastPicks, LastPicks)

StartStack == StartNewGame(LastPicks, LastPicks)

StackTick == \E in \in StackInputs : Tick(in, LastPicks)

NextStack ==
    \/ StartStack
    \/ StackTick

SpecStack == InitStack /\ [][NextStack]_vars

----------------------------------------------------------------------------
(* Driver specification: the pieces Z, S, L, J, T, I, O in turn, each left *)
(* to fall or dropped where it spawns, with the game paused and resumed    *)
(* and the dirty flag read at any time; the game over animation; the       *)
(* replay.                                                                 *)

DriverInputs == {NoInput, HardDrop}

InitDriver == Constructed(LastPicks, LastPicks)

StartDriver == StartNewGame(LastPicks, LastPicks)

\* the first IdlePieces pieces of a game are left to fall and the later ones
\* are dropped at once; a paused game and the animation get either reading
DriverTick ==
    \E in \in DriverInputs :
        /\ \/ game.isPaused
           \/ game.gameOverAnimation
           \/ in.hardDrop = (hist.draws > IdlePieces)
        /\ Tick(in, LastPicks)

DriverPause == \E pause \in BOOLEAN : PauseGame(pause)

DriverRead == ReadIsStateChanged

NextDriver ==
    \/ StartDriver
    \/ DriverTick
    \/ DriverPause
    \/ DriverRead

SpecDriver == InitDriver /\ [][NextDriver]_vars

----------------------------------------------------------------------------
(* Priority specification: as the driver specification without pauses and  *)
(* reads, but the player may also set every intent at once, or every       *)
(* intent but the hard drop.                                               *)

AllIntents ==
    [ hardDrop |-> TRUE, hold |-> TRUE, softDrop |-> TRUE, rotateCW |-> TRUE,
      rotateACW |-> TRUE, moveLeft |-> TRUE, moveRight |-> TRUE ]

HoldIntents == [AllIntents EXCEPT !.hardDrop = FALSE]

PriorityInputs == {NoInput, HardDrop, AllIntents, HoldIntents}

InitPriority == Constructed(LastPicks, LastPicks)

StartPriority == StartNewGame(LastPicks, LastPicks)

\* the hold comes within the first MaxSteers ticks of a game
PriorityTick ==
    \E in \in PriorityInputs :
        /\ \/ game.gameOverAnimation
           \/ /\ in.hardDrop = (hist.draws > IdlePieces)
              /\ (in.hold /\ ~in.hardDrop) => hist.steers < MaxSteers
        /\ Tick(in, LastPicks)

NextPriority == StartPriority \/ PriorityTick

SpecPriority == InitPriority /\ [][NextPriority]_vars

----------------------------------------------------------------------------
(* Clearing specification: the pieces Z, S, L, J, T, I, O in turn, each    *)
(* turned clockwise and moved sideways until it stands over the place the  *)
(* plan gives it, then dropped.  The plan completes eleven rows with its   *)
(* 28 pieces; the pieces after it are dropped where they spawn until the   *)
(* game is over.  On the first MaxSteers ticks of a game the player may    *)
(* also press both turns and both sideways moves at once.                  *)

\* for each piece in turn: <<rotation index, leftmost column>>
Plan ==
    << <<0, 0>>, <<1, 2>>, <<3, 3>>, <<0, 5>>, <<2, 7>>, <<1, 6>>, <<0, 7>>,
       <<1, 0>>, <<1, 4>>, <<3, 8>>, <<3, 2>>, <<2, 4>>, <<1, 0>>, <<0, 1>>,
       <<1, 7>>, <<2, 6>>, <<0, 1>>, <<0, 0>>, <<2, 4>>, <<1, 9>>, <<0, 5>>,
       <<2, 0>>, <<1, 3>>, <<0, 7>>, <<2, 0>>, <<2, 3>>, <<2, 6>>, <<0, 7>> >>

leftmost(piece) ==
    CHOOSE x \in 0..(numCols - 1) :
        /\ \E i \in 1..4 : piece.blocks[i][1] = x
        /\ \A i \in 1..4 : piece.blocks[i][1] >= x

\* the reading of the player who follows the plan with the n-th piece
planInput(g, n) ==
    IF n > Len(Plan) THEN HardDrop
    ELSE IF g.playerPiece.rotationIndex # Plan[n][1] THEN RotateCW
    ELSE IF leftmost(g.playerPiece) < Plan[n][2] THEN MoveRight
    ELSE IF leftmost(g.playerPiece) > Plan[n][2] THEN MoveLeft
    ELSE HardDrop

InitClear == Constructed(LastPicks, LastPicks)

StartClear == StartNewGame(LastPicks, LastPicks)

\* both turns and both sideways moves at once
Opposed ==
    [NoInput EXCEPT !.rotateCW = TRUE, !.rotateACW = TRUE,
                    !.moveLeft = TRUE, !.moveRight = TRUE]

ClearTick ==
    \E in \in {planInput(game, hist.draws), Opposed} :
        /\ in = Opposed => hist.steers < MaxSteers
        /\ Tick(IF game.gameOverAnimation THEN NoInput ELSE in, LastPicks)

NextClear == StartClear \/ ClearTick

SpecClear == InitClear /\ [][NextClear]_vars

----------------------------------------------------------------------------
(* Falling specification: every shape as the first piece of a game, every  *)
(* piece dropped where it spawns, through the game over animation to the   *)
(* replay.  The driver's loop runs a tick whenever the game is not over,   *)
(* so the ticks of the animation are weakly fair.                          *)

InitFall == Constructed(FirstShapePicks, LastPicks)

StartFall == StartNewGame(FirstShapePicks, LastPicks)

FallTick ==
    /\ ~game.gameOverAnimation
    /\ Tick(HardDrop, LastPicks)

WipeTick ==
    /\ game.gameOverAnimation
    /\ Tick(NoInput, LastPicks)

NextFall ==
    \/ StartFall
    \/ FallTick
    \/ WipeTick

SpecFall == InitFall /\ [][NextFall]_vars /\ WF_vars(WipeTick)

----------------------------------------------------------------------------
(* Properties of the piece queue, under SpecQueue.                         *)

\* the entries of seq are the 7 shapes, each once
isBag(seq) ==
    /\ Len(seq) = bagSize
    /\ {seq[i] : i \in 1..Len(seq)} = Shapes

\* C1: in every state reachable after construction or startNewGame, and so
\* after every dequeue, the piece queue holds at least 7 and at most 13
\* entries.
C1_QueueLength ==
    /\ Len(game.pieceQueue) >= bagSize
    /\ Len(game.pieceQueue) <= 2 * bagSize - 1

\* A dequeue found 7 entries, left 6 and refilled the queue to 13.
C1_Witness ==
    /\ last.ev.drew
    /\ hist.draws = bagSize + 1
    /\ Len(game.pieceQueue) = 2 * bagSize - 1

\* Every #refillPieceQueue call, whatever its 7 random picks, turns an empty
\* queue into a permutation of the 7 shapes.
RefillMakesBag ==
    \A c \in AllChoices : isBag(refillPieceQueue(fieldInitialisers, c).pieceQueue)

\* C2: bag fairness.  A refill keeps the queued entries and appends 7
\* entries that are a permutation of the 7 shapes; and the shapes dequeued
\* in a game, cut into groups of 7 from the first piece on, hold no shape
\* twice in a group and every shape once in a full group.
C2_BagFairness ==
    /\ RefillMakesBag
    /\ \A c \in QueuePicks :
          LET n == Len(game.pieceQueue)
              q == refillPieceQueue(game, c).pieceQueue
          IN  /\ Len(q) = n + bagSize
              /\ SubSeq(q, 1, n) = game.pieceQueue
              /\ isBag(SubSeq(q, n + 1, n + bagSize))
    /\ ~hist.repeated
    /\ Cardinality(hist.group) = ((hist.draws - 1) % bagSize) + 1
    /\ (hist.draws % bagSize = 0 => hist.group = Shapes)

\* The second group of 7 of a game has been dequeued in full.
C2_Witness ==
    /\ last.ev.drew
    /\ hist.draws = 2 * bagSize
    /\ hist.group = Shapes

\* C3: drought bound.  Within one game, when a shape is dequeued again, at
\* most 12 dequeues of other shapes lie between its two dequeues.
C3_DroughtBound == hist.gap <= 12

\* A shape came first in one bag and last in the next: 12 dequeues of other
\* shapes in between.
C3_Witness ==
    /\ last.ev.drew
    /\ hist.gap = 12

----------------------------------------------------------------------------
(* Properties of moves and rotations, under Spec.                          *)

\* the cells a list of 4 blocks occupies
cellsOf(blocks) == {blocks[i] : i \in 1..4}

\* some block of the piece, displaced by (dx, dy), meets a wall, the floor,
\* the ceiling or an occupied cell
blockedAt(g, blocks, dx, dy) ==
    \E i \in 1..4 : isBlockHere(g, blocks[i][1] + dx, blocks[i][2] + dy)

\* C4: tryMovePiece(dx, dy) is atomic.  If one of the 4 target cells is
\* blocked it returns false and changes nothing (blocks, rotation index,
\* grid, grace timer); otherwise it returns true, each of the 4 blocks is
\* translated by exactly (dx, dy), and rotation index and grid are kept.
C4_MoveAtomic ==
    \A dx \in (0 - MaxStep)..MaxStep, dy \in (0 - MaxStep)..MaxStep :
        LET r == tryMovePiece(game, dx, dy)
            b == game.playerPiece.blocks
        IN  IF blockedAt(game, b, dx, dy)
            THEN /\ ~r.ret
                 /\ r.g = game
            ELSE /\ r.ret
                 /\ \A i \in 1..4 :
                       r.g.playerPiece.blocks[i] = <<b[i][1] + dx, b[i][2] + dy>>
                 /\ r.g.playerPiece.rotationIndex = game.playerPiece.rotationIndex
                 /\ r.g.gridData = game.gridData

\* A tick whose horizontal move was refused: the piece stands against a
\* wall or the stack.
C4_Witness ==
    /\ last.op = "runTick"
    /\ last.ev.mv = "fail"
    /\ game.playerPiece.active

\* the rotation index after a quarter turn
turnIndex(from, clockwise) == (from + 4 + (IF clockwise THEN 1 ELSE -1)) % 4

\* a block turned by a quarter about the pivot
turnAbout(pivot, b, clockwise) ==
    IF clockwise
    THEN <<pivot[1] + (b[2] - pivot[2]), pivot[2] - (b[1] - pivot[1])>>
    ELSE <<pivot[1] - (b[2] - pivot[2]), pivot[2] + (b[1] - pivot[1])>>

\* the kick tests the shape's table has
kickTests(shape) == 0..(Len(offsetTableOf(shape)) - 1)

\* the placement of kick test i: the piece turned about block 0 and shifted
\* by table[i][current rotation] - table[i][target rotation]
kickPlacement(g, clockwise, i) ==
    LET p == g.playerPiece
        row == offsetTableOf(p.shape)[i + 1]
        from == row[p.rotationIndex + 1]
        to == row[turnIndex(p.rotationIndex, clockwise) + 1]
    IN  [j \in 1..4 |->
            LET t == turnAbout(p.blocks[1], p.blocks[j], clockwise)
            IN  <<t[1] + from[1] - to[1], t[2] + from[2] - to[2]>>]

\* the 4 cells of kick test i are unblocked
kickFree(g, clockwise, i) ==
    LET q == kickPlacement(g, clockwise, i)
    IN  \A j \in 1..4 : ~isBlockHere(g, q[j][1], q[j][2])

\* C5: tryRotatePiece is first-success-wins.  In every direction, when some
\* kick test has 4 unblocked cells, the rotation succeeds on the smallest
\* such test i: the blocks become the piece turned about block 0 and shifted
\* by table[i][current] - table[i][target], the rotation index becomes
\* (current + 4 +/- 1) mod 4, and the grid is kept.  It succeeds only then.
C5_RotateFirstSuccess ==
    game.playerPiece.active =>
    \A clockwise \in BOOLEAN :
        LET r == tryRotatePiece(game, clockwise)
            ok == {i \in kickTests(game.playerPiece.shape) :
                      kickFree(game, clockwise, i)}
        IN  /\ r.ret <=> ok # {}
            /\ r.ret =>
                  /\ r.test \in ok
                  /\ \A k \in ok : r.test <= k
                  /\ \A j \in 1..4 :
                        r.g.playerPiece.blocks[j]
                            = kickPlacement(game, clockwise, r.test)[j]
                  /\ r.g.playerPiece.rotationIndex
                        = turnIndex(game.playerPiece.rotationIndex, clockwise)
                  /\ r.g.gridData = game.gridData

\* A tick whose rotation succeeded on its third or a later test, after the
\* tests before it had met the stack or a wall.
C5_Witness ==
    /\ last.ev.rot = "ok"
    /\ last.ev.rotTest >= 2
    /\ game.playerPiece.active

\* C6: a rejected rotation changes nothing.  When no kick test has 4
\* unblocked cells, tryRotatePiece returns false and the object (blocks,
\* rotation index, grid, grace timer countdown and boost count) is as before.
C6_RejectedRotation ==
    game.playerPiece.active =>
    \A clockwise \in BOOLEAN :
        LET r == tryRotatePiece(game, clockwise)
        IN  (\A i \in kickTests(game.playerPiece.shape) :
                ~kickFree(game, clockwise, i))
            => /\ ~r.ret
               /\ ~r.threw
               /\ r.g = game

\* A tick whose rotation was rejected: all 5 tests met the stack, a wall or
\* the ceiling.
C6_Witness ==
    /\ last.ev.rot = "fail"
    /\ last.ev.rotTest = 0 - 1
    /\ game.playerPiece.active

\* C7: rotating an active O piece is a no-op that always passes.  In either
\* direction it succeeds on test 0, the only row of its table, without
\* reading a further row, and the piece occupies the same 4 cells after it.
C7_ORotation ==
    (game.playerPiece.shape = "O" /\ game.playerPiece.active) =>
    /\ Len(offsetTableOf("O")) = 1
    /\ \A clockwise \in BOOLEAN :
          LET r == tryRotatePiece(game, clockwise)
          IN  /\ r.ret
              /\ ~r.threw
              /\ r.test = 0
              /\ cellsOf(r.g.playerPiece.blocks) = cellsOf(game.playerPiece.blocks)
              /\ r.g.playerPiece.rotationIndex
                    = turnIndex(game.playerPiece.rotationIndex, clockwise)

\* An O piece resting on the stack was rotated by a tick for the second
\* time (rotation index 2, reached through index 1 or 3).
C7_Witness ==
    /\ game.playerPiece.shape = "O"
    /\ game.playerPiece.active
    /\ game.playerPiece.rotationIndex = 2
    /\ last.ev.rot = "ok"
    /\ blockedAt(game, game.playerPiece.blocks, 0, 0 - 1)

----------------------------------------------------------------------------
(* Properties of the lock timer, under SpecGrace.                          *)

\* Ticks of countdown the timer can still deliver: what is on the clock
\* plus one full duration for every boost not yet spent.
lockPotential(g) ==
    (maxGraceBoosts - g.graceBoostCount) * graceTimerDuration + g.graceTimer

\* The step is a tick that continues an occupancy of the running state:
\* the timer ran before it, no downward move succeeded and nothing locked.
occupancyContinues ==
    /\ game.timerRunning
    /\ last'.op = "runTick"
    /\ last'.ev.branch = "play"
    /\ last'.ev.soft # "ok"
    /\ last'.ev.grav # "ok"
    /\ last'.ev.expiry = "none"

----------------------------------------------------------------------------
(* Properties of the game over trigger, under Spec.                        *)

\* one of the 4 cells where a piece of this shape is created is blocked
spawnBlocked(g, shape) == blockedAt(g, QuadPiece(shape).blocks, 0, 0)

\* the piece of g is of this shape, is active exactly if `blocked` is false,
\* and the game over animation has begun exactly if `blocked` is true
createdAs(g, shape, blocked) ==
    /\ g.playerPiece.shape = shape
    /\ g.playerPiece.active = ~blocked
    /\ g.gameOverAnimation = blocked

\* C9: Whenever a call creates a new piece - by the dequeue after a lock, by
\* the dequeue of a first hold, or by a hold swap - and one of its 4 spawn
\* cells is blocked, that call leaves the piece inactive and the game over
\* animation begun; with all 4 cells free it leaves the piece active and no
\* animation begun.  The grid the lock tests is the one with the locked
\* piece deposited and no line cleared yet.
C9_GameOverTrigger ==
    /\ game.playerPiece.active = ~game.gameOverAnimation
    /\ (~game.gameOver /\ ~game.gameOverAnimation) =>
          \A choices \in PicksFor(game, LastPicks) :
            LET next == game.pieceQueue[1]
                dropped == hardDropPlayerPiece(game)
                afterLock == finishWithPiece(dropped, choices)
                afterHold == holdPiece(game, choices)
            IN  /\ createdAs(afterLock, next,
                             spawnBlocked(depositPlayerPiece(dropped), next))
                /\ game.heldPiece = NoShape =>
                      createdAs(afterHold, next, spawnBlocked(game, next))
                /\ (game.heldPiece # NoShape /\ ~game.playerPiece.wasHeld) =>
                      createdAs(afterHold, game.heldPiece,
                                spawnBlocked(game, game.heldPiece))

\* a hold swap has created a piece onto the stack
C9_Witness ==
    /\ last.op = "runTick"
    /\ last.ev.branch = "hold"
    /\ ~last.ev.drew
    /\ game.playerPiece.wasHeld
    /\ ~game.playerPiece.active
    /\ game.gameOverAnimation

----------------------------------------------------------------------------
(* Properties of the game over animation, under SpecFall.                  *)

\* rows removed after n ticks of the animation: none on the first tick, which
\* sets the counters, then one on every 4th tick until 21 are gone
rowsDueAfter(n) ==
    IF n = 0 THEN 0
    ELSE IF (n - 1) \div animationPeriod < numRows
    THEN (n - 1) \div animationPeriod ELSE numRows

\* C10: Once the game over animation has begun and ticks keep arriving, the
\* bottom row is removed once every 4 animation ticks, exactly numRows (21)
\* rows are removed in all, gameState.gameOver is set only after the last
\* removal (on the tick that follows it, with the grid empty), and it is
\* eventually set.
C10_GameOverSequence ==
    /\ [](/\ hist.wiped = rowsDueAfter(hist.animTicks)
          /\ hist.animTicks > 0 => game.gameOverAnimation
          /\ (last.op = "runTick" /\ last.ev.rowRemoved) =>
                /\ hist.animTicks % animationPeriod = 1
                /\ ~game.gameOver
          /\ (game.gameOverAnimation /\ game.gameOver) =>
                /\ hist.wiped = numRows
                /\ hist.animTicks = animationPeriod * numRows + 2
                /\ game.gridData = emptyGrid)
    /\ (game.gameOverAnimation ~> game.gameOver)

\* the tick after the 21st removal has set gameOver
C10_Witness ==
    /\ last.op = "runTick"
    /\ last.ev.branch = "animation"
    /\ game.gameOver
    /\ hist.wiped = numRows

----------------------------------------------------------------------------
(* Properties of locking and of the speed level, under SpecClear.          *)

\* all 10 cells of a row hold a block
completeRow(row) ==
    \A x \in 0..(numCols - 1) : (row \div 2^(29 - 3 * x)) % 8 # 0

\* the rows that are not complete, from the bottom up
keptRows(rows) == SelectSeq(rows, LAMBDA row : ~completeRow(row))

\* the kept rows from row 0 up, empty rows above them
packedRows(rows) ==
    keptRows(rows) \o [i \in 1..(Len(rows) - Len(keptRows(rows))) |-> 0]

\* the piece shifted sideways by dx, if it fits there, and dropped
droppedAt(g, dx) ==
    IF isPlayerPieceValid(movePlayerPiece(g, dx, 0))
    THEN hardDropPlayerPiece(movePlayerPiece(g, dx, 0))
    ELSE hardDropPlayerPiece(g)

\* finishWithPiece on g has left no complete row, has added the number of
\* rows that the deposit completed to linesCleared, and has left the other
\* rows in their order, packed towards row 0
lockResolved(g, choices) ==
    LET deposited == depositPlayerPiece(g).gridData
        after == finishWithPiece(g, choices)
    IN  /\ \A y \in 1..numRows : ~completeRow(after.gridData[y])
        /\ after.linesCleared =
               g.linesCleared + (numRows - Len(keptRows(deposited)))
        /\ after.gridData = packedRows(deposited)

\* C11: When finishWithPiece returns, no row of the grid is complete,
\* linesCleared has grown by exactly the number of rows that were complete
\* after the deposit, and the rows that were not complete keep their
\* contents and their order, packed towards row 0 with empty rows above.
\* Checked for the piece of every reachable state dropped from up to
\* MaxShift columns to either side, and for the lock of every tick.
C11_LineClears ==
    /\ (~game.gameOver /\ game.playerPiece.active) =>
          \A dx \in (0 - MaxShift)..MaxShift :
              \A choices \in PicksFor(game, LastPicks) :
                  lockResolved(droppedAt(game, dx), choices)
    /\ \A y \in 1..numRows : ~completeRow(game.gridData[y])
    /\ hist.cleared \in 0..4

\* a locked piece has completed 3 rows at once and rows have come down
C11_Witness ==
    /\ last.op = "runTick"
    /\ last.ev.locked
    /\ hist.cleared = 3
    /\ game.linesCleared >= 3
    /\ game.gridData[1] # 0

\* the level for n cleared lines: one more for every 10 lines, 11 at most
levelFor(n) == IF n \div 10 + 1 < 11 THEN n \div 10 + 1 ELSE 11

\* ticks per gravity step at each level
gravityTable ==
    [level \in 1..11 |->
        CASE level = 1 -> 15 [] level = 2 -> 14 [] level = 3 -> 13
          [] level = 4 -> 12 [] level = 5 -> 11 [] level = 6 -> 10
          [] level = 7 -> 9  [] level = 8 -> 7  [] level = 9 -> 5
          [] level = 10 -> 3 [] level = 11 -> 1]

\* the speed fields of g are those of its number of cleared lines
speedAgrees(g) ==
    /\ g.speedLevel \in 1..11
    /\ g.speedLevel = levelFor(g.linesCleared)
    /\ g.ticksPerGravity = gravityTable[g.speedLevel]

\* C12: At every tick boundary after startNewGame, speedLevel is
\* min(floor(linesCleared / 10) + 1, 11) and the ticks per gravity step are
\* the table entry of that level (15, 14, 13, 12, 11, 10, 9, 7, 5, 3, 1 for
\* the levels 1..11); speedLevel stays within 1..11 and never decreases
\* during a game.  #updateSpeedLevel is also applied to every number of
\* cleared lines up to MaxLines.
C12_SpeedLevel ==
    /\ [](last.op # "constructor" =>
            /\ speedAgrees(game)
            /\ \A n \in 0..MaxLines :
                   speedAgrees(updateSpeedLevel([game EXCEPT !.linesCleared = n])))
    /\ [][last'.op = "runTick" =>
            /\ game'.speedLevel >= game.speedLevel
            /\ game'.linesCleared >= game.linesCleared]_vars

\* the 10th line has been cleared and the level has risen to 2
C12_Witness ==
    /\ last.op = "runTick"
    /\ last.ev.locked
    /\ hist.cleared > 0
    /\ game.linesCleared = 10
    /\ game.speedLevel = 2
    /\ game.ticksPerGravity = 14

----------------------------------------------------------------------------
(* Properties of the order of a tick's steps, under SpecPriority.          *)

\* every combination of the seven intents
Inputs ==
    [ hardDrop : BOOLEAN, hold : BOOLEAN, softDrop : BOOLEAN,
      rotateCW : BOOLEAN, rotateACW : BOOLEAN,
      moveLeft : BOOLEAN, moveRight : BOOLEAN ]

\* the counters of gravity and of the lock timer are those of g
countersKept(g, after) ==
    /\ after.gravityTickCounter = g.gravityTickCounter
    /\ after.graceTimer = g.graceTimer
    /\ after.graceBoostCount = g.graceBoostCount

\* the piece of g went straight down from where it stood to `dropped` and
\* was locked there, the next piece of the queue was created, and nothing
\* else ran
onlyDropped(g, dropped, r) ==
    /\ r.ev.branch = "hardDrop"
    /\ r.ev.locked
    /\ r.g.gridData = packedRows(depositPlayerPiece(dropped).gridData)
    /\ r.g.playerPiece.shape = g.pieceQueue[1]
    /\ r.g.playerPiece.blocks = QuadPiece(g.pieceQueue[1]).blocks
    /\ r.g.heldPiece = g.heldPiece
    /\ ~r.g.timerRunning
    /\ countersKept(g, r.g)

\* `dropped` is g with its piece moved straight down as far as it goes
straightDown(g, dropped) ==
    /\ dropped.playerPiece.rotationIndex = g.playerPiece.rotationIndex
    /\ \E dy \in 0..numRows :
           dropped.playerPiece.blocks
               = shiftBlocks(g.playerPiece.blocks, <<0, 0 - dy>>)
    /\ blockedAt(dropped, dropped.playerPiece.blocks, 0, 0 - 1)

\* the piece of g was held (or, held once already, left alone) and nothing
\* else ran
onlyHeld(g, r) ==
    /\ r.ev.branch = "hold"
    /\ ~r.ev.locked
    /\ r.g.gridData = g.gridData
    /\ r.g.linesCleared = g.linesCleared
    /\ r.g.timerRunning = g.timerRunning
    /\ countersKept(g, r.g)
    /\ IF g.heldPiece = NoShape
       THEN /\ r.g.heldPiece = g.playerPiece.shape
            /\ r.g.playerPiece.shape = g.pieceQueue[1]
            /\ r.g.playerPiece.blocks = QuadPiece(g.pieceQueue[1]).blocks
            /\ r.g.playerPiece.rotationIndex = 0
       ELSE IF ~g.playerPiece.wasHeld
       THEN /\ r.g.heldPiece = g.playerPiece.shape
            /\ r.g.playerPiece.shape = g.heldPiece
            /\ r.g.playerPiece.blocks = QuadPiece(g.heldPiece).blocks
            /\ r.g.playerPiece.rotationIndex = 0
       ELSE /\ r.g.heldPiece = g.heldPiece
            /\ r.g.playerPiece = g.playerPiece

\* C13: On a tick of a running game where the hard drop fires, the piece is
\* dropped and locked and nothing else of the tick runs (no hold, soft
\* drop, rotation, sideways move, gravity counter increment or lock timer
\* countdown), whatever other intents are set; where the hold fires without
\* the hard drop, only holdPiece runs.
C13_TickPriority ==
    (~game.gameOver /\ ~game.isPaused /\ ~game.gameOverAnimation) =>
        \A choices \in PicksFor(game, LastPicks) :
            \E dropped \in {hardDropPlayerPiece(game)} :
                /\ straightDown(game, dropped)
                /\ \A in \in Inputs :
                      \E r \in {runTick(game, in, choices)} :
                          /\ in.hardDrop => onlyDropped(game, dropped, r)
                          /\ (in.hold /\ ~in.hardDrop) => onlyHeld(game, r)

\* a tick with every intent set has dropped and locked the piece, in a game
\* where a tick with every intent but the hard drop had held a piece
C13_Witness ==
    /\ last.op = "runTick"
    /\ last.in = AllIntents
    /\ last.ev.branch = "hardDrop"
    /\ last.ev.locked
    /\ game.heldPiece # NoShape
    /\ hist.locks > 0

----------------------------------------------------------------------------
(* Properties of opposite intents, under SpecClear.                        *)

\* the readings of the ticks that reach the rotation and the move
PlayInputs == {in \in Inputs : ~in.hardDrop /\ ~in.hold}

bothTurns(in) == in.rotateCW /\ in.rotateACW

oneTurn(in) == in.rotateCW # in.rotateACW

bothShifts(in) == in.moveLeft /\ in.moveRight

oneShift(in) == in.moveLeft # in.moveRight

\* the tick r of g under `in` turned the piece at most once, only if
\* exactly one turn was set, and then in the direction that was set
turnedAsSet(g, in, r) ==
    /\ (r.ev.rot # "none") = oneTurn(in)
    /\ r.ev.rot \in {"none", "ok", "fail"}
    /\ (r.ev.rot = "ok" /\ ~r.ev.locked) =>
           r.g.playerPiece.rotationIndex =
               (g.playerPiece.rotationIndex + (IF in.rotateCW THEN 1 ELSE 3)) % 4
    /\ (r.ev.rot # "ok" /\ ~r.ev.locked) =>
           r.g.playerPiece.rotationIndex = g.playerPiece.rotationIndex

\* the tick r of g under `in` moved the piece sideways at most once, only
\* if exactly one move was set, and then in the direction that was set
shiftedAsSet(g, in, r) ==
    /\ (r.ev.mv # "none") = oneShift(in)
    /\ (r.ev.rot # "ok" /\ ~r.ev.locked) =>
           leftmost(r.g.playerPiece) =
               leftmost(g.playerPiece)
                 + (IF r.ev.mv # "ok" THEN 0
                    ELSE IF in.moveRight THEN 1 ELSE 0 - 1)
    /\ (r.ev.mv = "fail" /\ r.ev.rot = "none" /\ r.ev.soft # "ok") =>
           blockedAt(g, g.playerPiece.blocks,
                     IF in.moveRight THEN 1 ELSE 0 - 1, 0)

\* C14: Opposite intents cancel.  On a tick where both turns fire no
\* rotation is attempted (the tick is the one without either turn), and on
\* a tick where both sideways moves fire no move is attempted; with exactly
\* one of a pair set, exactly one attempt is made, in that direction.
C14_OppositeCancel ==
    (~game.gameOver /\ ~game.isPaused /\ ~game.gameOverAnimation) =>
        \A choices \in PicksFor(game, LastPicks) :
            \A in \in PlayInputs :
                \E r \in {runTick(game, in, choices)} :
                    /\ turnedAsSet(game, in, r)
                    /\ shiftedAsSet(game, in, r)
                    /\ bothTurns(in) =>
                          r.g = runTick(game,
                                        [in EXCEPT !.rotateCW = FALSE,
                                                   !.rotateACW = FALSE],
                                        choices).g
                    /\ bothShifts(in) =>
                          r.g = runTick(game,
                                        [in EXCEPT !.moveLeft = FALSE,
                                                   !.moveRight = FALSE],
                                        choices).g

\* a tick with both turns and both moves set has attempted neither, where
\* a turn and a move to the right were both possible
C14_Witness ==
    /\ last.op = "runTick"
    /\ last.in = Opposed
    /\ last.ev.branch = "play"
    /\ last.ev.rot = "none"
    /\ last.ev.mv = "none"
    /\ ~last.ev.locked
    /\ game.playerPiece.shape # "O"
    /\ runTick(game, RotateCW, LastPicksOne).ev.rot = "ok"
    /\ runTick(game, MoveRight, LastPicksOne).ev.mv = "ok"

----------------------------------------------------------------------------
(* Properties of the pause and of the dirty flag, under SpecDriver.        *)

C16_DirtyFlagComplete == hist.unseen => game.isStateChanged

\* the flag of `after` is up if the flag of g is
flagKept(g, after) == g.isStateChanged => after.isStateChanged

\* none of the operations of the object, applied to g, takes the flag down
noCallClears(g) ==
    /\ \A pause \in BOOLEAN : flagKept(g, pauseGame(g, pause))
    /\ \A choices \in LastPicks :
          /\ flagKept(g, startNewGame(g, choices, choices))
          /\ g.playerPiece.active =>
                /\ flagKept(g, holdPiece(g, choices))
                /\ flagKept(g, finishWithPiece(g, choices))
                /\ \A in \in DriverInputs \cup SteerInputs :
                      flagKept(g, runTick(g, in, choices).g)
    /\ g.playerPiece.active =>
          /\ \A dx \in (0 - MaxStep)..MaxStep, dy \in (0 - MaxStep)..MaxStep :
                flagKept(g, tryMovePiece(g, dx, dy).g)
          /\ \A clockwise \in BOOLEAN :
                flagKept(g, tryRotatePiece(g, clockwise).g)

\* C17: Reading isStateChanged returns the current flag and sets it to
\* false, so that two reads with no operation between them return
\* (v, false); no operation of the object (runTick, startNewGame, pauseGame,
\* tryMovePiece, tryRotatePiece, holdPiece, finishWithPiece) changes the
\* flag from true to false.
C17_ReadAndClear ==
    /\ [](/\ readIsStateChanged(game).ret = game.isStateChanged
          /\ readIsStateChanged(game).g = [game EXCEPT !.isStateChanged = FALSE]
          /\ readIsStateChanged(readIsStateChanged(game).g).ret = FALSE
          /\ noCallClears(game))
    /\ [][IF last'.op = "isStateChanged"
           THEN /\ last'.ret = game.isStateChanged
                /\ game' = [game EXCEPT !.isStateChanged = FALSE]
           ELSE flagKept(game, game')]_vars

\* a read has returned true and cleared the flag after a piece was locked
C17_Witness ==
    /\ last.op = "isStateChanged"
    /\ last.ret
    /\ ~game.isStateChanged
    /\ ~hist.unseen
    /\ hist.locks > 0

----------------------------------------------------------------------------
(* Properties of startNewGame, under SpecClear.                            *)

\* g is a fresh game
freshGame(g) ==
    /\ \A y \in 1..numRows : g.gridData[y] = 0
    /\ g.linesCleared = 0
    /\ g.speedLevel = 1
    /\ g.ticksPerGravity = 15
    /\ ~g.gameOver
    /\ ~g.isPaused
    /\ ~g.gameOverAnimation
    /\ Len(g.pieceQueue) >= 7
    /\ g.playerPiece.active
    /\ g.playerPiece.rotationIndex = 0
    /\ ~g.playerPiece.wasHeld
    /\ g.playerPiece.shape \in Shapes
    /\ \A i \in 1..4 :
          g.playerPiece.blocks[i] =
              <<getBaseShape(g.playerPiece.shape)[i][1] + 3,
                getBaseShape(g.playerPiece.shape)[i][2] + 19>>

\* C18: Immediately after startNewGame, from any prior state, every grid
\* cell is 0, linesCleared is 0, speedLevel is 1, the ticks per gravity step
\* are 15, gameOver and isPaused are false, the game over animation is not
\* running, the queue has at least 7 entries, and the active piece is
\* active, has rotation index 0, was not held, and has the base offsets of
\* its shape moved by (+3, +19).  Checked for the calls the driver makes and
\* for the call made in every reachable state.
C18_FreshGame ==
    /\ last.op = "startNewGame" => freshGame(game)
    /\ \A c1 \in FirstShapePicks, c2 \in LastPicks :
          freshGame(startNewGame(game, c1, c2))

\* a second game has been started, after one that was played to its end
C18_Witness ==
    /\ last.op = "startNewGame"
    /\ hist.draws = 1
    /\ hist.locks = 0
    /\ game.gravityTickCounter > 0
    /\ game.gridData = emptyGrid

\* C19: startNewGame resets all state: after it the held piece is empty,
\* the lock timer is idle with a boost count of 0, and the gravity tick
\* counter is 0, whatever happened before the call.
C19_StartResetsAll ==
    last.op = "startNewGame" =>
        /\ game.heldPiece = NoShape
        /\ ~game.timerRunning
        /\ game.graceBoostCount = 0
        /\ game.gravityTickCounter = 0

----------------------------------------------------------------------------
(* Properties of pauseGame, under SpecDriver.                              *)

\* pauseGame(b) on g sets isPaused to b and changes nothing else
pauseOnlySetsFlag(g) ==
    \A pause \in BOOLEAN : pauseGame(g, pause) = [g EXCEPT !.isPaused = pause]

\* g after pauseGame(true) and then pauseGame(false)
pausedAndResumed(g) == pauseGame(pauseGame(g, TRUE), FALSE)

----------------------------------------------------------------------------
(* Properties of the hold, under Spec.                                     *)

\* the 4 blocks of a piece of this shape where it is created
spawnBlocks(shape) ==
    [i \in 1..4 |-> <<getBaseShape(shape)[i][1] + spawnX,
                      getBaseShape(shape)[i][2] + spawnY>>]

\* seq begins with the elements of start
beginsWith(seq, start) ==
    /\ Len(seq) >= Len(start)
    /\ \A i \in 1..Len(start) : seq[i] = start[i]

\* the hold takes effect on g: the slot is empty, or the piece was not held
holdTakesEffect(g) == g.heldPiece = NoShape \/ ~g.playerPiece.wasHeld

\* `after` is g after a hold that took effect
heldAndReplaced(g, after) ==
    /\ after.heldPiece = g.playerPiece.shape
    /\ after.heldPiece # NoShape
    /\ IF g.heldPiece = NoShape
       THEN /\ after.playerPiece.shape = g.pieceQueue[1]
            /\ beginsWith(after.pieceQueue, Tail(g.pieceQueue))
       ELSE /\ after.playerPiece.shape = g.heldPiece
            /\ after.pieceQueue = g.pieceQueue
    /\ after.playerPiece.blocks = spawnBlocks(after.playerPiece.shape)
    /\ after.playerPiece.rotationIndex = 0
    /\ after.gridData = g.gridData
    /\ after.linesCleared = g.linesCleared

\* C21: When a hold takes effect with an empty hold slot, the held piece
\* becomes the old active shape and the new active piece is the former
\* front of the queue, which advances by one; with an occupied slot the
\* held and the active shape are exchanged and the queue is unchanged.  In
\* both cases the new piece is at the spawn position with rotation index 0
\* and the grid and linesCleared are unchanged.  The held piece is never
\* emptied.
C21_HoldSwap ==
    /\ [](\A choices \in PicksFor(game, LastPicks) :
              (game.playerPiece.active /\ holdTakesEffect(game))
                  => heldAndReplaced(game, holdPiece(game, choices)))
    /\ [][/\ IF last'.op = "runTick" /\ last'.ev.branch = "hold"
                 /\ holdTakesEffect(game)
              THEN heldAndReplaced(game, game')
              ELSE TRUE
           /\ IF game.heldPiece # NoShape
              THEN game'.heldPiece # NoShape
              ELSE TRUE]_vars

\* a hold has exchanged the active piece with a held piece of another shape
C21_Witness ==
    /\ last.op = "runTick"
    /\ last.ev.branch = "hold"
    /\ ~last.ev.drew
    /\ game.playerPiece.wasHeld
    /\ game.playerPiece.active
    /\ game.heldPiece # game.playerPiece.shape

\* C22: A piece can be held only once: when the active piece came from
\* holdPiece (taken from the hold slot, or drawn from the queue by a hold
\* into the empty slot), a further hold before that piece locks leaves the
\* held piece and the active piece unchanged.  Stated for the tick right
\* after a hold tick, whose piece came from that hold or an earlier one.
C22_HoldOnce ==
    [][IF /\ last.op = "runTick" /\ last.ev.branch = "hold"
          /\ game.playerPiece.active
          /\ last'.op = "runTick" /\ last'.ev.branch = "hold"
       THEN /\ game'.heldPiece = game.heldPiece
            /\ game'.playerPiece = game.playerPiece
       ELSE TRUE]_vars

----------------------------------------------------------------------------
(* Properties of the ghost.                                                *)

\* the blocks can go down by d rows through free cells only
fallsFreely(g, blocks, d) ==
    \A k \in 1..d : ~blockedAt(g, blocks, 0, 0 - k)

\* the largest number of rows the blocks can go straight down
restDepth(g, blocks) ==
    CHOOSE d \in 0..numRows :
        /\ fallsFreely(g, blocks, d)
        /\ \A e \in (d + 1)..numRows : ~fallsFreely(g, blocks, e)

\* the blocks where they come to rest when they go straight down
projection(g, blocks) ==
    [i \in 1..4 |-> <<blocks[i][1], blocks[i][2] - restDepth(g, blocks)>>]

\* C24: After startNewGame and after every runTick in which the piece is
\* active, ghostBlocks equals the blocks of the active piece translated
\* straight down by the largest d >= 0 for which every position on the way
\* is free of the current grid.
C24_GhostConsistent ==
    (last.op \in {"startNewGame", "runTick"} /\ game.playerPiece.active)
        => game.ghostBlocks = projection(game, game.playerPiece.blocks)

\* a tick has turned the piece above a stack, and the ghost lies below it
C24_Witness ==
    /\ last.op = "runTick"
    /\ last.ev.rot = "ok"
    /\ game.playerPiece.active
    /\ game.ghostBlocks # game.playerPiece.blocks
    /\ hist.locks > 0

\* the value a block of this colour adds to row y of the grid; the 3 bits
\* of column 0 are the top bits of the word, whose int32 image is negative
\* when the highest is set
cellValue(block, y, color) ==
    IF block[2] # y THEN 0
    ELSE IF block[1] = 0 /\ color >= 4 THEN (color - 8) * 2^29
    ELSE color * 2^(29 - 3 * block[1])

\* the rows with the 4 cells, which are free in them, filled in this colour
withCells(rows, cells, color) ==
    [y \in 1..numRows |->
        rows[y] + cellValue(cells[1], y - 1, color)
                + cellValue(cells[2], y - 1, color)
                + cellValue(cells[3], y - 1, color)
                + cellValue(cells[4], y - 1, color)]

\* C23: On a hard drop tick the 4 cells written to the grid are exactly the
\* ghost block coordinates exposed at the end of the previous tick, and the
\* piece is locked in that same tick: the active piece afterwards is the
\* next one of the queue at its spawn position.
C23_HardDropAtGhost ==
    [][IF last'.op = "runTick" /\ last'.ev.branch = "hardDrop"
       THEN /\ \A i \in 1..4 :
                  ~isBlockHere(game, game.ghostBlocks[i][1],
                                     game.ghostBlocks[i][2])
            /\ game'.gridData =
                   packedRows(withCells(game.gridData, game.ghostBlocks,
                                        pieceMap(game.playerPiece.shape)))
            /\ last'.ev.locked
            /\ hist'.locks = hist.locks + 1
            /\ game'.playerPiece.shape = game.pieceQueue[1]
            /\ game'.playerPiece.blocks = spawnBlocks(game.pieceQueue[1])
       ELSE TRUE]_vars

\* a piece that was turned and shifted has been dropped onto the stack from
\* above, and did not complete a row
C23_Witness ==
    /\ last.op = "runTick"
    /\ last.ev.branch = "hardDrop"
    /\ hist.locks > 3
    /\ hist.cleared = 0
    /\ game.gridData[3] # 0
    /\ game.playerPiece.active

\* C25: A successful tryMovePiece recomputes the ghost by itself: when the
\* call returns true, ghostBlocks is the projection of the piece where the
\* call has put it.
C25_MoveUpdatesGhost ==
    (last.op \in {"startNewGame", "runTick"} /\ game.playerPiece.active) =>
        \A dx \in (0 - MaxStep)..MaxStep, dy \in (0 - MaxStep)..0 :
            LET r == tryMovePiece(game, dx, dy)
            IN  r.ret => r.g.ghostBlocks =
                             projection(r.g, r.g.playerPiece.blocks)

----------------------------------------------------------------------------
(* Properties of the lock and of the grace timer, under SpecGrace.         *)

\* the object as the lock timer block of a tick of the last branch finds
\* it: after the soft drop, the rotation, the move and the gravity step
atTimerStep(g, in) ==
    tickGravity(tickMove(tickRotate(tickSoftDrop(g, in).g, in).g, in).g).g

\* the countdown of g is running and is used up by this tick
countdownOver(g) ==
    g.timerRunning /\ graceElapsed(updateGraceTimer(g, 1))

\* the rows of g with its piece written into them, complete rows removed
rowsWithPiece(g) ==
    packedRows(withCells(g.gridData, g.playerPiece.blocks,
                         pieceMap(g.playerPiece.shape)))

C30_TimerStarts ==
    [][IF /\ last'.op = "runTick" /\ last'.ev.branch = "play"
          /\ ~last'.ev.threw
          /\ ~game.timerRunning
          /\ (last'.ev.soft = "fail" \/ last'.ev.grav = "fail")
       THEN /\ game'.timerRunning
            /\ game'.graceBoostCount = 0
            /\ game'.graceTimer >= graceTimerDuration - 1
       ELSE TRUE]_vars

----------------------------------------------------------------------------
(* Keyboard specification.  The player presses and releases the hold key   *)
(* and the two keys bound to the clockwise turn, each action up to         *)
(* MaxPresses times, between the ticks of a game; no key is held into more *)
(* than MaxHeld ticks.                                                     *)

TypedKeys == {"E", "L", "ArrowRight"}

\* the actions that runTick takes on a counter of exactly 1
SingleShot ==
    {"HardDrop", "Hold", "RotateClockwise", "RotateAntiClockwise"}

InitInput == Constructed(LastPicks, LastPicks)

StartInput == StartNewGame(LastPicks, LastPicks)

\* the keydown listener: inputMod.setInputState(event.key, true)
KeyDown ==
    \E key \in TypedKeys \ keys.down :
        /\ keys.presses[keyToState(key)] < MaxPresses
        /\ inputMod' = setInputState(inputMod, key, TRUE)
        /\ keys' = [keys EXCEPT !.down = @ \cup {key},
                                !.presses[keyToState(key)] = @ + 1]
        /\ UNCHANGED <<game, last, hist>>

\* the keyup listener: inputMod.setInputState(event.key, false)
KeyUp ==
    \E key \in keys.down :
        /\ inputMod' = setInputState(inputMod, key, FALSE)
        /\ keys' = [keys EXCEPT !.down = @ \ {key}]
        /\ UNCHANGED <<game, last, hist>>

\* game.runTick(inputMod): the counters are updated, then read
InputTick ==
    /\ hist.steers < MaxSteers
    /\ \A a \in CounterNames : inputMod.counters[a] < MaxHeld
    /\ inputMod' = updateCounters(inputMod)
    /\ keys' = [keys EXCEPT !.fires =
                   [a \in CounterNames |->
                       IF getCounter(updateCounters(inputMod), a) = 1
                       THEN @[a] + 1 ELSE @[a]]]
    /\ TickWith(readings(updateCounters(inputMod)), LastPicks)

NextInput ==
    \/ StartInput
    \/ KeyDown
    \/ KeyUp
    \/ InputTick

SpecInput == InitInput /\ [][NextInput]_vars

\* C26: With updateCounters called once per tick, each press of a key
\* bound to HardDrop, Hold, RotateClockwise or RotateAntiClockwise makes
\* the counter of the action equal to 1 on exactly one tick, however the
\* key events fall between the ticks: no action has had more ticks with a
\* counter of 1 than presses, and once its keys are up and a tick has
\* seen that, it has had as many.
C26_SingleShot ==
    \A a \in SingleShot :
        /\ keys.fires[a] <= keys.presses[a]
        /\ ( /\ last.op = "runTick"
             /\ \A key \in keys.down : keyToState(key) # a
             /\ getCounter(inputMod, a) = 0 )
           => keys.fires[a] = keys.presses[a]

----------------------------------------------------------------------------
(* Stalling specification.  The first piece of a game is soft-dropped to  *)
(* the bottom rows; from there on the player turns it clockwise or leaves  *)
(* it alone, tick after tick, and the ticks never stop (the frame loop of  *)
(* the driver runs one whenever a tick time has passed).  A turn is read   *)
(* on the first tick of a key press only, so it is not read on two ticks   *)
(* in a row.                                                               *)

\* the row of the lowest block of the piece
lowest(piece) ==
    CHOOSE y \in 0..(numRows + 1) :
        /\ \E i \in 1..4 : piece.blocks[i][2] = y
        /\ \A i \in 1..4 : piece.blocks[i][2] >= y

StallInputs(g) ==
    IF lowest(g.playerPiece) > StallRows THEN {SoftDrop}
    ELSE {NoInput, RotateCW}

InitStall == Constructed(LastPicks, LastPicks)

StartStall == StartNewGame(LastPicks, LastPicks)

StallTick ==
    /\ hist.locks < MaxLocks
    /\ \E in \in StallInputs(game) :
          /\ ~(in.rotateCW /\ last.in.rotateCW)
          /\ Tick(in, LastPicks)

NextStall ==
    \/ StartStall
    \/ StallTick

SpecStall ==
    InitStall /\ [][NextStall]_vars /\ WF_vars(StallTick)

\* C28: In a game that is not over, under ticks that never stop and
\* whatever the player does, the active piece is eventually locked or the
\* game ends.
C28_NoStalling ==
    (last.op = "startNewGame") ~> (hist.locks > 0 \/ game.gameOverAnimation)

----------------------------------------------------------------------------
(* Ceiling specification: the pieces Z, S, L, J, T, I, O in turn, steered  *)
(* as under the clearing specification by a plan of twelve pieces.  The    *)
(* first bag is stacked into a tower on the right that reaches the rows    *)
(* in which pieces spawn; the pieces after the plan are dropped where they *)
(* spawn until the game is over.                                           *)

\* for each piece in turn: <<rotation index, leftmost column>>
CeilingPlan ==
    << <<3, 8>>, <<1, 8>>, <<1, 8>>, <<1, 8>>, <<1, 8>>, <<1, 8>>, <<0, 4>>,
       <<0, 6>>, <<0, 1>>, <<0, 2>>, <<3, 0>>, <<1, 6>> >>

\* the reading of the player who follows the ceiling plan with the n-th piece
ceilingInput(g, n) ==
    IF n > Len(CeilingPlan) THEN HardDrop
    ELSE IF g.playerPiece.rotationIndex # CeilingPlan[n][1] THEN RotateCW
    ELSE IF leftmost(g.playerPiece) < CeilingPlan[n][2] THEN MoveRight
    ELSE IF leftmost(g.playerPiece) > CeilingPlan[n][2] THEN MoveLeft
    ELSE HardDrop

InitCeiling == Constructed(LastPicks, LastPicks)

StartCeiling == StartNewGame(LastPicks, LastPicks)

CeilingTick ==
    Tick(IF game.gameOverAnimation THEN NoInput
         ELSE ceilingInput(game, hist.draws), LastPicks)

NextCeiling ==
    \/ StartCeiling
    \/ CeilingTick

SpecCeiling == InitCeiling /\ [][NextCeiling]_vars

\* C27: Between the operations of the game (so at every tick boundary) an
\* active piece occupies no cell of the stack, also when the lock of the
\* last tick cleared rows beneath the piece that it spawned.
C27_NoOverlap ==
    game.playerPiece.active => isPlayerPieceValid(game)

----------------------------------------------------------------------------
(* Further properties of the grace timer, under SpecGrace.                 *)

----------------------------------------------------------------------------
(* Countdown specification: the first piece of a game is left to gravity,  *)
(* soft dropped or held at will until a piece locks.                       *)

CountdownInputs == {NoInput, SoftDrop, Hold}

InitCountdown == Constructed(LastPicks, LastPicks)

StartCountdown == StartNewGame(LastPicks, LastPicks)

CountdownTick ==
    /\ hist.locks < MaxLocks
    /\ \E in \in CountdownInputs : Tick(in, LastPicks)

NextCountdown ==
    \/ StartCountdown
    \/ CountdownTick

SpecCountdown == InitCountdown /\ [][NextCountdown]_vars

\* C32: On every tick of a game that is neither paused nor in its game
\* over animation, a grace timer that is running before and after the tick,
\* and was neither boosted nor stopped and started again by it, has lost
\* exactly one tick duration of its countdown.
C32_CountdownPerTick ==
    [][IF /\ last'.op = "runTick"
          /\ last'.ev.branch \in {"hardDrop", "hold", "play"}
          /\ ~last'.ev.threw
          /\ game.timerRunning /\ game'.timerRunning
          /\ last'.ev.boosts = 0
          /\ last'.ev.soft # "ok"
       THEN game'.graceTimer = game.graceTimer - 1
       ELSE TRUE]_vars

----------------------------------------------------------------------------
(* Top-out specification: the pieces Z, S, L, J, T, I, O in turn, steered  *)
(* by a plan of twelve pieces and dropped.  The first bag is stacked into  *)
(* a tower on the right, the second Z is laid on top of it into a cell in  *)
(* which the I piece spawns, and the T of the second bag completes a row.  *)

\* for each piece in turn: <<rotation index, leftmost column>>
TopOutPlan ==
    << <<1, 7>>, <<1, 7>>, <<1, 8>>, <<1, 8>>, <<3, 7>>, <<3, 8>>, <<2, 3>>,
       <<0, 6>>, <<1, 2>>, <<1, 3>>, <<2, 4>>, <<0, 0>> >>

\* the reading of the player who follows the top-out plan with the n-th piece
topOutInput(g, n) ==
    IF n > Len(TopOutPlan) THEN HardDrop
    ELSE IF g.playerPiece.rotationIndex # TopOutPlan[n][1] THEN RotateCW
    ELSE IF leftmost(g.playerPiece) < TopOutPlan[n][2] THEN MoveRight
    ELSE IF leftmost(g.playerPiece) > TopOutPlan[n][2] THEN MoveLeft
    ELSE HardDrop

InitTopOut == Constructed(LastPicks, LastPicks)

StartTopOut == StartNewGame(LastPicks, LastPicks)

TopOutTick ==
    Tick(IF game.gameOverAnimation THEN NoInput
         ELSE topOutInput(game, hist.draws), LastPicks)

NextTopOut ==
    \/ StartTopOut
    \/ TopOutTick

SpecTopOut == InitTopOut /\ [][NextTopOut]_vars

\* the blocks of the piece as the lock of this tick deposits them
restingBlocks(g, in) ==
    IF in.hardDrop THEN hardDropPlayerPiece(g).playerPiece.blocks
    ELSE atTimerStep(g, in).playerPiece.blocks

\* C33: A tick that locks a piece leaves the new piece and the game over
\* animation as the test of the spawn cells against the grid with the
\* locked piece written in and no row removed yet decides, the timer idle,
\* and the grid with every row that the deposit completed removed and
\* counted - also when that test began the game over animation.
C33_LockOrder ==
    [][IF last'.op = "runTick" /\ last'.ev.locked
       THEN LET next == game.pieceQueue[1]
                deposited ==
                    withCells(game.gridData, restingBlocks(game, last'.in),
                              pieceMap(game.playerPiece.shape))
                blocked == spawnBlocked([game EXCEPT !.gridData = deposited],
                                        next)
            IN  /\ game'.playerPiece.shape = next
                /\ game'.playerPiece.blocks = spawnBlocks(next)
                /\ game'.playerPiece.active = ~blocked
                /\ game'.gameOverAnimation = blocked
                /\ ~game'.timerRunning
                /\ game'.gridData = packedRows(deposited)
                /\ game'.linesCleared =
                       game.linesCleared
                           + (numRows - Len(keptRows(deposited)))
       ELSE TRUE]_vars

\* a lock has completed a row and begun the game over animation: the row
\* is gone and counted
C33_Witness ==
    /\ last.op = "runTick"
    /\ last.ev.locked
    /\ hist.cleared > 0
    /\ game.linesCleared > 0
    /\ game.gameOverAnimation
    /\ ~game.playerPiece.active

----------------------------------------------------------------------------
(* Properties of the game over animation, under SpecPriority.              *)

\* the rows of g with the bottom row removed and an empty row on top
bottomRowRemoved(g) == Tail(g.gridData) \o <<0>>

\* C34: On a tick of a game in its game over animation the piece, which is
\* inactive, the held piece, the queue, linesCleared and speedLevel are
\* left as they are whatever the intents (hard drop and hold included),
\* the grid is either kept or loses its bottom row, and the tick does what
\* a tick without any intent does.
C34_AnimationIgnoresInput ==
    (game.gameOverAnimation /\ ~game.gameOver) =>
        \A choices \in PicksFor(game, LastPicks) :
            \E quiet \in {runTick(game, NoInput, choices)} :
                \A in \in Inputs :
                    \E r \in {runTick(game, in, choices)} :
                        /\ r = quiet
                        /\ r.ev.branch \in {"animation", "paused"}
                        /\ ~r.g.playerPiece.active
                        /\ r.g.playerPiece = game.playerPiece
                        /\ r.g.heldPiece = game.heldPiece
                        /\ r.g.pieceQueue = game.pieceQueue
                        /\ r.g.linesCleared = game.linesCleared
                        /\ r.g.speedLevel = game.speedLevel
                        /\ r.g.gridData \in {game.gridData,
                                             bottomRowRemoved(game)}

\* a tick with every intent set has removed a row of the stack in the game
\* over animation
C34_Witness ==
    /\ last.op = "runTick"
    /\ last.in = AllIntents
    /\ last.ev.branch = "animation"
    /\ last.ev.rowRemoved
    /\ game.gameOverAnimation
    /\ hist.wiped > 0
    /\ \E y \in 1..numRows : game.gridData[y] # 0

----------------------------------------------------------------------------
(* Properties of the shape of the piece and of the grid words, under Spec. *)

\* the offset v turned clockwise by k quarter turns
quarterTurns(v, k) ==
    CASE k = 0 -> v
      [] k = 1 -> <<v[2], 0 - v[1]>>
      [] k = 2 -> <<0 - v[1], 0 - v[2]>>
      [] k = 3 -> <<0 - v[2], v[1]>>

\* the offset of block i of the piece from its block 0
offsetFromCentre(blocks, i) ==
    <<blocks[i][1] - blocks[1][1], blocks[i][2] - blocks[1][2]>>

\* the 32-bit word holds nothing outside the 30 bits of its 10 cells: its
\* two lowest bits are 0, and it is the sum of its 10 fields
inWindow(row) ==
    /\ row % 4 = 0
    /\ row = shl3(field3(row, 29), 29)
             + shl3(field3(row, 26), 26) + shl3(field3(row, 23), 23)
             + shl3(field3(row, 20), 20) + shl3(field3(row, 17), 17)
             + shl3(field3(row, 14), 14) + shl3(field3(row, 11), 11)
             + shl3(field3(row, 8), 8) + shl3(field3(row, 5), 5)
             + shl3(field3(row, 2), 2)

\* C35: In every reachable state the 4 blocks of the piece are pairwise
\* distinct, lie in columns 0..9 and rows 0..20, and stand to block 0 as
\* the blocks of the base shape do, turned clockwise by rotationIndex (in
\* 0..3) quarter turns; and no row of the grid holds a bit outside the 30
\* bits of its cells.
C35_PieceRigid ==
    LET piece == game.playerPiece
        base == getBaseShape(piece.shape)
    IN  /\ piece.shape \in Shapes
        /\ piece.rotationIndex \in 0..3
        /\ \A i \in 1..4 :
              /\ piece.blocks[i][1] \in 0..(numCols - 1)
              /\ piece.blocks[i][2] \in 0..(numRows - 1)
              /\ offsetFromCentre(piece.blocks, i) =
                     quarterTurns(offsetFromCentre(base, i),
                                  piece.rotationIndex)
        /\ \A i, j \in 1..4 : i # j => piece.blocks[i] # piece.blocks[j]
        /\ \A y \in 1..numRows : inWindow(game.gridData[y])

\* a rotation that was shifted by a later test of the offset table has
\* left the piece turned, next to a stack with blocks in column 0
C35_Witness ==
    /\ last.op = "runTick"
    /\ last.ev.rot = "ok"
    /\ last.ev.rotTest > 0
    /\ game.playerPiece.active
    /\ game.playerPiece.rotationIndex # 0
    /\ hist.locks > 0

----------------------------------------------------------------------------
(* Properties of the finished game, under SpecFall.                        *)

\* C36: Whenever gameState.gameOver is true - before the first game and
\* after the game over animation of a game has run to its end - every row
\* of the grid is 0.
C36_GameOverEmpty ==
    game.gameOver => \A y \in 1..numRows : game.gridData[y] = 0

\* the animation of a game in which pieces were locked has removed all the
\* rows and has set gameOver
C36_Witness ==
    /\ last.op = "runTick"
    /\ last.ev.branch = "animation"
    /\ game.gameOver
    /\ game.gameOverAnimation
    /\ hist.locks > 0
    /\ hist.wiped = numRows

----------------------------------------------------------------------------
(* Turning specification: a game with any of the 7 shapes as its first     *)
(* piece; the piece is taken down row by row (tryMovePiece(0, -1)) as far  *)
(* as row TurnFloor and turned either way (tryRotatePiece) at any height.  *)

InitTurn == Constructed(FirstShapePicks, LastPicks)

StartTurn == StartNewGame(FirstShapePicks, LastPicks)

\* game.tryMovePiece(0, -1)
LowerStep ==
    /\ ~game.gameOver
    /\ lowest(game.playerPiece) > TurnFloor
    /\ game' = tryMovePiece(game, 0, -1).g
    /\ last' = [NoLast EXCEPT !.op = "tryMovePiece",
                              !.ret = tryMovePiece(game, 0, -1).ret]
    /\ UNCHANGED <<hist, inputMod, keys>>

\* game.tryRotatePiece(clockwise)
TurnStep ==
    /\ ~game.gameOver
    /\ \E clockwise \in BOOLEAN :
          \E r \in {tryRotatePiece(game, clockwise)} :
              /\ game' = r.g
              /\ last' = [NoLast EXCEPT
                            !.op = "tryRotatePiece",
                            !.in = IF clockwise THEN RotateCW ELSE RotateACW,
                            !.ev.threw = r.threw,
                            !.ev.rotTest = r.test,
                            !.ret = r.ret]
    /\ UNCHANGED <<hist, inputMod, keys>>

NextTurn ==
    \/ StartTurn
    \/ LowerStep
    \/ TurnStep

SpecTurn == InitTurn /\ [][NextTurn]_vars

\* no cell within 3 columns and 3 rows of block 0 of the piece is blocked
freeAround(g) ==
    \A dx \in (0 - 3)..3, dy \in (0 - 3)..3 :
        ~isBlockHere(g, g.playerPiece.blocks[1][1] + dx,
                        g.playerPiece.blocks[1][2] + dy)

\* the piece of g as it is after turning it n times in one direction
RECURSIVE turnedTimes(_, _, _)
turnedTimes(g, clockwise, n) ==
    IF n = 0 THEN g
    ELSE turnedTimes(tryRotatePiece(g, clockwise).g, clockwise, n - 1)

\* C37: With no blocked cell near the piece, for every shape and rotation
\* index, a turn followed by the opposite turn succeeds twice and gives
\* back the 4 blocks, in their order, and the rotation index; and so do 4
\* turns in one direction.
C37_RotationRoundTrip ==
    (~game.gameOver /\ freeAround(game)) =>
        \A clockwise \in BOOLEAN :
            \E there \in {tryRotatePiece(game, clockwise)} :
                \E back \in {tryRotatePiece(there.g, ~clockwise)} :
                    /\ there.ret /\ there.test = 0
                    /\ back.ret /\ back.test = 0
                    /\ there.g.playerPiece.blocks # game.playerPiece.blocks
                          \/ game.playerPiece.shape = "O"
                    /\ back.g.playerPiece = game.playerPiece
                    /\ turnedTimes(game, clockwise, 4).playerPiece
                           = game.playerPiece
                    /\ turnedTimes(game, clockwise, 2).playerPiece
                           = turnedTimes(game, ~clockwise, 2).playerPiece

\* an I piece in free space that has been turned anticlockwise onto
\* rotation index 3
C37_Witness ==
    /\ last.op = "tryRotatePiece"
    /\ last.in = RotateACW
    /\ last.ret
    /\ game.playerPiece.shape = "I"
    /\ game.playerPiece.rotationIndex = 3
    /\ freeAround(game)

----------------------------------------------------------------------------
(* Grid specification: the functions of the grid store, each called once   *)
(* on a grid drawn from a set of painted grids.  The functions read and    *)
(* write gridData only.                                                    *)

\* the colour of cell (x, y) of painted grid k; grid 0 is the empty grid
paintColor(k, x, y) == (k * (x + 3 * y + 1)) % 8

\* the word of row y of painted grid k, from column x on
RECURSIVE paintedRow(_, _, _)
paintedRow(k, y, x) ==
    IF x >= numCols THEN 0
    ELSE shl3(paintColor(k, x, y), bitshiftOf(x)) + paintedRow(k, y, x + 1)

paintedGrid(k) == [y \in 1..numRows |-> paintedRow(k, y - 1, 0)]

InitGrid ==
    \E c1 \in FirstShapePicks, c2 \in LastPicks, k \in 0..GridPaints :
        /\ game = [constructor(c1, c2) EXCEPT !.gridData = paintedGrid(k)]
        /\ last = [NoLast EXCEPT !.op = "constructor"]
        /\ hist = histNewGame
        /\ inputMod = QuadtrisInput
        /\ keys = NoKeys

\* #placeBlockHere(x, y, color)
PlaceStep ==
    /\ last.op = "constructor"
    /\ \E x \in 0..(numCols - 1), y \in 0..(numRows - 1), color \in 0..7 :
          /\ game' = placeBlockHere(game, x, y, color)
          /\ last' = [NoLast EXCEPT
                        !.op = "placeBlockHere",
                        !.in = [x |-> x, y |-> y, color |-> color]]
    /\ UNCHANGED <<hist, inputMod, keys>>

\* clearRow(row)
ClearStep ==
    /\ last.op = "constructor"
    /\ \E row \in 0..(numRows - 1) :
          /\ game' = clearRow(game, row)
          /\ last' = [NoLast EXCEPT !.op = "clearRow", !.in = [row |-> row]]
    /\ UNCHANGED <<hist, inputMod, keys>>

\* isBlockHere(x, y)
BlockStep ==
    /\ last.op = "constructor"
    /\ \E x \in (0 - GridMargin)..(numCols - 1 + GridMargin),
          y \in (0 - GridMargin)..(numRows - 1 + GridMargin) :
          last' = [NoLast EXCEPT
                     !.op = "isBlockHere",
                     !.in = [x |-> x, y |-> y],
                     !.ret = isBlockHere(game, x, y)]
    /\ UNCHANGED <<game, hist, inputMod, keys>>

NextGrid ==
    \/ PlaceStep
    \/ ClearStep
    \/ BlockStep

SpecGrid == InitGrid /\ [][NextGrid]_vars

\* C38: After #placeBlockHere(x, y, color), for x in 0..9, y in 0..20 and
\* color in 0..7, getBlockData(x, y) is color, every other cell of the grid
\* reads as before, every other row is the same word, and the two unused
\* low bits of row y are as before.
C38_PackingRoundTrip ==
    [][IF last'.op = "placeBlockHere"
       THEN LET x == last'.in.x
                y == last'.in.y
            IN  /\ getBlockData(game', x, y) = last'.in.color
                /\ \A x2 \in 0..(numCols - 1), y2 \in 0..(numRows - 1) :
                      (x2 = x /\ y2 = y)
                      \/ getBlockData(game', x2, y2) = getBlockData(game, x2, y2)
                /\ \A y2 \in 0..(numRows - 1) :
                      y2 = y \/ game'.gridData[y2 + 1] = game.gridData[y2 + 1]
                /\ game'.gridData[y + 1] % 4 = game.gridData[y + 1] % 4
                /\ [game' EXCEPT !.gridData = game.gridData] = game
       ELSE TRUE]_vars

\* colour 3 has been written over the colour 4 of cell (0, 1) of painted
\* grid 1, whose neighbour (1, 1) holds colour 5
C38_Witness ==
    /\ last.op = "placeBlockHere"
    /\ last.in = [x |-> 0, y |-> 1, color |-> 3]
    /\ paintColor(1, 0, 1) = 4
    /\ game.gridData[1] = paintedGrid(1)[1]
    /\ getBlockData(game, 0, 1) = 3
    /\ getBlockData(game, 1, 1) = 5

\* C39: isBlockHere(x, y) returns true exactly when x < 0, x > 9, y < 0,
\* y >= numRows, or getBlockData(x, y) is not 0.
C39_CollisionCorrect ==
    last.op = "isBlockHere" =>
        LET x == last.in.x
            y == last.in.y
        IN  last.ret = ( \/ x < 0
                         \/ x > 9
                         \/ y < 0
                         \/ y >= numRows
                         \/ getBlockData(game, x, y) # 0 )

\* isBlockHere has returned true for a cell of column 0 whose colour has
\* the top bit of the word set
C39_Witness ==
    /\ last.op = "isBlockHere"
    /\ last.in.x = 0
    /\ last.in.y \in 0..(numRows - 1)
    /\ last.ret
    /\ getBlockData(game, 0, last.in.y) >= 4
    /\ game.gridData[last.in.y + 1] < 0

\* C40: After clearRow(r), for r in 0..20, every row y with r <= y < 20 is
\* the row y + 1 of before, row 20 is empty, and every row below r is as
\* before.
C40_ClearRowShifts ==
    [][IF last'.op = "clearRow"
       THEN LET r == last'.in.row
            IN  /\ Len(game'.gridData) = numRows
                /\ \A y \in 0..(numRows - 1) :
                      game'.gridData[y + 1] =
                          IF y < r THEN game.gridData[y + 1]
                          ELSE IF y < 20 THEN game.gridData[y + 2]
                          ELSE 0
                /\ [game' EXCEPT !.gridData = game.gridData] = game
       ELSE TRUE]_vars

\* row 5 of painted grid 1 has been cleared: row 4 is as painted, row 5
\* holds what was painted in row 6, and the top row, which was painted, is
\* empty
C40_Witness ==
    /\ last.op = "clearRow"
    /\ last.in.row = 5
    /\ game.gridData[5] = paintedGrid(1)[5]
    /\ game.gridData[6] = paintedGrid(1)[7]
    /\ game.gridData[6] # paintedGrid(1)[6]
    /\ paintedGrid(1)[numRows] # 0
    /\ game.gridData[numRows] = 0

====
